---- MODULE Spec2Model ----
(***************************************************************************)
(* A model of the goke command-line engine: the vendored mri tokenizer,    *)
(* the schema coercion engine, option/command registration, and the        *)
(* resolver/dispatcher of Goke.parse.                                      *)
(*                                                                         *)
(* JavaScript strings are sequences of one-character strings, so that the  *)
(* character-level steps of the code (leading dashes, "=", ".", "<", the   *)
(* numeric grammar of unary plus) are computed rather than assumed.        *)
(* JavaScript values are tagged records [t |-> tag, v |-> payload].        *)
(***************************************************************************)
EXTENDS Integers, Sequences, FiniteSets, TLC

VARIABLES
  registry,           \* commands, global options, help flag: fixed once registered
  matchedCommand,     \* Goke.matchedCommand: index into registry.commands, 0 = undefined
  matchedCommandName, \* Goke.matchedCommandName: a JS value (Undef or Str)
  rawArgs,            \* Goke.rawArgs of the latest parse call
  args,               \* Goke.args
  options,            \* Goke.options
  call,               \* what the latest parse call did (observation of its outcome)
  promises,           \* the promises the invoked handlers returned, each with its state
  stderr,             \* what the instance wrote to Goke.stderr
  coercion,           \* the latest direct call of coerceBySchema: its arguments and its result
  tokenized,          \* the latest direct call of mri: its arguments and its result
  phases              \* the phases the latest traced parse call went through, in order

vars == <<registry, matchedCommand, matchedCommandName, rawArgs, args, options, call, promises, stderr,
          coercion, tokenized, phases>>

(***************************************************************************)
(* JavaScript values                                                       *)
(***************************************************************************)
Str(s) == [t |-> "str", v |-> s]
Bool(b) == [t |-> "bool", v |-> b]
Undef == [t |-> "undef", v |-> <<>>]
Null == [t |-> "null", v |-> <<>>]
\* a finite number m * 10^e, normalised: m = 0 => e = 0, otherwise 10 does not divide m
Num(m, e) == [t |-> "num", v |-> <<m, e>>]
NegZero == [t |-> "negzero", v |-> <<>>]
NaN == [t |-> "nan", v |-> <<>>]
Infinite == [t |-> "inf", v |-> <<>>]
Arr(s) == [t |-> "arr", v |-> s]
\* a plain object: its own properties as <<key, value>> pairs in insertion order
Obj(pairs) == [t |-> "obj", v |-> pairs]
\* an array created empty and filled by index (setDotProp), as index/value pairs
Sparse(pairs) == [t |-> "sparse", v |-> pairs]
\* a thrown error: kind is the message family, v the strings the message names
Err(kind, what) == [t |-> "error", kind |-> kind, v |-> what]

IsErr(x) == x.t = "error"
IsStr(x) == x.t = "str"
IsBool(x) == x.t = "bool"
IsTrue(x) == x.t = "bool" /\ x.v = TRUE
IsNullish(x) == x.t \in {"undef", "null"}
IsNumber(x) == x.t \in {"num", "negzero", "nan", "inf"}
IsContainer(x) == x.t \in {"obj", "sparse", "arr"}

(***************************************************************************)
(* Characters and strings                                                  *)
(***************************************************************************)
Digits == <<"0", "1", "2", "3", "4", "5", "6", "7", "8", "9">>
HexLetters == <<"a", "b", "c", "d", "e", "f">>
LowerCase == {"a", "b", "c", "d", "e", "f", "g", "h", "i", "j", "k", "l", "m",
              "n", "o", "p", "q", "r", "s", "t", "u", "v", "w", "x", "y", "z"}

IsDigit(c) == \E i \in 1..10 : Digits[i] = c
DigitVal(c) == (CHOOSE i \in 1..10 : Digits[i] = c) - 1
IsHexDigit(c) == IsDigit(c) \/ \E i \in 1..6 : HexLetters[i] = c
HexVal(c) == IF IsDigit(c) THEN DigitVal(c) ELSE 9 + (CHOOSE i \in 1..6 : HexLetters[i] = c)

\* s.substring(from) with a 0-based index, as JavaScript counts
SubstringFrom(s, from) == IF from >= Len(s) THEN <<>> ELSE SubSeq(s, from + 1, Len(s))
\* s.substring(from, to) with 0-based indices, to exclusive, both clamped to the length
Substring(s, from, to) ==
  LET f == IF from > Len(s) THEN Len(s) ELSE from
      u == IF to > Len(s) THEN Len(s) ELSE to
  IN IF f >= u THEN <<>> ELSE SubSeq(s, f + 1, u)

\* s.indexOf(c) as a 1-based position, 0 when absent
IndexOfChar(s, c) == IF \E i \in 1..Len(s) : s[i] = c
                     THEN CHOOSE i \in 1..Len(s) : s[i] = c /\ \A j \in 1..(i - 1) : s[j] # c
                     ELSE 0

Includes(seq, x) == \E i \in 1..Len(seq) : seq[i] = x

RECURSIVE SplitOn(_, _)
\* s.split(c) for a one-character separator
SplitOn(s, c) ==
  LET p == IndexOfChar(s, c)
  IN IF p = 0 THEN <<s>>
     ELSE <<SubSeq(s, 1, p - 1)>> \o SplitOn(SubSeq(s, p + 1, Len(s)), c)

RECURSIVE JoinWith(_, _)
\* parts.join(c)
JoinWith(parts, c) ==
  IF Len(parts) = 0 THEN <<>>
  ELSE IF Len(parts) = 1 THEN parts[1]
  ELSE parts[1] \o <<c>> \o JoinWith(Tail(parts), c)

RECURSIVE TrimLeft(_)
TrimLeft(s) == IF Len(s) > 0 /\ s[1] = " " THEN TrimLeft(Tail(s)) ELSE s
RECURSIVE TrimRight(_)
TrimRight(s) == IF Len(s) > 0 /\ s[Len(s)] = " " THEN TrimRight(SubSeq(s, 1, Len(s) - 1)) ELSE s
Trim(s) == TrimRight(TrimLeft(s))

\* seq.filter(Boolean) on a list of strings: the empty strings are dropped
FilterNonEmpty(parts) == SelectSeq(parts, LAMBDA p : Len(p) > 0)

(***************************************************************************)
(* Objects: own properties in insertion order; Object.keys lists the       *)
(* canonical array-index keys first, in ascending numeric order.           *)
(***************************************************************************)
HasKey(pairs, k) == \E i \in 1..Len(pairs) : pairs[i][1] = k
KeyPos(pairs, k) == CHOOSE i \in 1..Len(pairs) : pairs[i][1] = k
\* obj[k]: undefined when k is not an own property
GetProp(pairs, k) == IF HasKey(pairs, k) THEN pairs[KeyPos(pairs, k)][2] ELSE Undef
\* obj[k] = val: an existing key keeps its place, a new key goes last
SetProp(pairs, k, val) ==
  IF HasKey(pairs, k)
  THEN [pairs EXCEPT ![KeyPos(pairs, k)] = <<k, val>>]
  ELSE Append(pairs, <<k, val>>)

RECURSIVE DecimalValue(_)
\* the number a string of decimal digits denotes
DecimalValue(s) == IF Len(s) = 0 THEN 0
                   ELSE 10 * DecimalValue(SubSeq(s, 1, Len(s) - 1)) + DigitVal(s[Len(s)])
AllDigits(s) == Len(s) > 0 /\ \A i \in 1..Len(s) : IsDigit(s[i])
\* a canonical array index: "0", or digits without a leading zero
IsArrayIndex(k) == AllDigits(k) /\ (Len(k) = 1 \/ k[1] # "0")

RECURSIVE SortIndexKeys(_)
\* the array-index keys in ascending numeric order
SortIndexKeys(ks) ==
  IF Len(ks) = 0 THEN <<>>
  ELSE LET m == CHOOSE i \in 1..Len(ks) :
                  \A j \in 1..Len(ks) : DecimalValue(ks[i]) <= DecimalValue(ks[j])
       IN <<ks[m]>> \o SortIndexKeys(SubSeq(ks, 1, m - 1) \o SubSeq(ks, m + 1, Len(ks)))

\* Object.keys(obj) / for (k in obj)
OwnKeys(pairs) ==
  LET ks == [i \in 1..Len(pairs) |-> pairs[i][1]]
  IN SortIndexKeys(SelectSeq(ks, IsArrayIndex))
       \o SelectSeq(ks, LAMBDA k : ~IsArrayIndex(k))

(***************************************************************************)
(* Numbers: unary plus on a string (StringToNumber) and String(number)     *)
(***************************************************************************)
RECURSIVE NormNum(_, _)
\* m * 10^e with the factors of ten moved out of m
NormNum(m, e) == IF m = 0 THEN Num(0, 0)
                 ELSE IF m % 10 = 0 THEN NormNum(m \div 10, e + 1)
                 ELSE Num(m, e)

RECURSIVE HexValue(_)
HexValue(s) == IF Len(s) = 0 THEN 0
               ELSE 16 * HexValue(SubSeq(s, 1, Len(s) - 1)) + HexVal(s[Len(s)])

\* the leading run of decimal digits of s
DigitRun(s) ==
  LET n == IF \E i \in 1..Len(s) : ~IsDigit(s[i])
           THEN (CHOOSE i \in 1..Len(s) : ~IsDigit(s[i]) /\ \A j \in 1..(i - 1) : IsDigit(s[j])) - 1
           ELSE Len(s)
  IN SubSeq(s, 1, n)

\* the exponent digits ds (negated when neg) applied to the mantissa digits ip.fp
WithExponent(ip, fp, neg, ds) ==
  IF ~AllDigits(ds) THEN NaN
  ELSE NormNum(DecimalValue(ip \o fp),
               (IF neg THEN 0 - DecimalValue(ds) ELSE DecimalValue(ds)) - Len(fp))

\* what follows "e": an optional sign, then digits
ExponentPart(ip, fp, r3) ==
  WithExponent(ip, fp, Len(r3) > 0 /\ r3[1] = "-",
               IF Len(r3) > 0 /\ r3[1] \in {"+", "-"} THEN Tail(r3) ELSE r3)

\* what follows the mantissa digits ip.fp: nothing, or an exponent
AfterMantissa(ip, fp, r2) ==
  IF Len(ip) + Len(fp) = 0 THEN NaN
  ELSE IF Len(r2) = 0 THEN NormNum(DecimalValue(ip \o fp), 0 - Len(fp))
  ELSE IF r2[1] \in {"e", "E"} THEN ExponentPart(ip, fp, Tail(r2))
  ELSE NaN

\* the fraction digits fp that begin the text t after the "."
FractionPart(ip, fp, t) == AfterMantissa(ip, fp, SubSeq(t, Len(fp) + 1, Len(t)))

\* what follows the integer digits ip: an optional "." and fraction digits
AfterInteger(ip, r1) ==
  IF Len(r1) > 0 /\ r1[1] = "." THEN FractionPart(ip, DigitRun(Tail(r1)), Tail(r1))
  ELSE AfterMantissa(ip, <<>>, r1)

\* the integer digits ip that begin s
IntegerPart(s, ip) == AfterInteger(ip, SubSeq(s, Len(ip) + 1, Len(s)))

\* StrUnsignedDecimalLiteral: digits [. digits] [e [+-] digits], or "Infinity"
UnsignedDecimal(s) ==
  IF s = <<"I", "n", "f", "i", "n", "i", "t", "y">> THEN Infinite
  ELSE IntegerPart(s, DigitRun(s))

\* -u for the number u a literal denotes
Negated(u) ==
  IF u.t = "num" THEN (IF u.v[1] = 0 THEN NegZero ELSE Num(0 - u.v[1], u.v[2])) ELSE u

\* a signed decimal literal
SignedDecimal(s, u) == IF s[1] = "-" THEN Negated(u) ELSE u

\* +s for a string s (no white space occurs in the tokens modelled)
ToNumber(s) ==
  IF Len(s) = 0 THEN Num(0, 0)
  ELSE IF Len(s) > 2 /\ s[1] = "0" /\ s[2] \in {"x", "X"}
  THEN (IF \A i \in 3..Len(s) : IsHexDigit(s[i])
        THEN NormNum(HexValue(SubSeq(s, 3, Len(s))), 0) ELSE NaN)
  ELSE SignedDecimal(s, UnsignedDecimal(IF s[1] \in {"+", "-"} THEN Tail(s) ELSE s))

\* Number.isFinite
IsFinite(n) == n.t \in {"num", "negzero"}
\* n % 1 !== 0
HasFraction(n) == n.t = "num" /\ n.v[2] < 0
\* a === b on two numbers (-0 === 0, NaN equals nothing)
NumEq(a, b) ==
  \/ a.t = "num" /\ b.t = "num" /\ a.v = b.v
  \/ a.t = "negzero" /\ (b.t = "negzero" \/ b = Num(0, 0))
  \/ b.t = "negzero" /\ a = Num(0, 0)
  \/ a.t = "inf" /\ b.t = "inf"

RECURSIVE NatToString(_)
NatToString(n) == IF n < 10 THEN <<Digits[n + 1]>>
                  ELSE NatToString(n \div 10) \o <<Digits[(n % 10) + 1]>>
RECURSIVE Zeros(_)
Zeros(n) == IF n <= 0 THEN <<>> ELSE <<"0">> \o Zeros(n - 1)

\* String(n) for the finite numbers small enough to print without an exponent
NumberToString(n) ==
  IF n.t = "negzero" THEN <<"0">>
  ELSE LET m == n.v[1]
           e == n.v[2]
           sign == IF m < 0 THEN <<"-">> ELSE <<>>
           ds == NatToString(IF m < 0 THEN 0 - m ELSE m)
       IN IF e >= 0 THEN sign \o ds \o Zeros(e)
          ELSE IF Len(ds) > 0 - e
          THEN sign \o SubSeq(ds, 1, Len(ds) + e) \o <<".">> \o SubSeq(ds, Len(ds) + e + 1, Len(ds))
          ELSE sign \o <<"0", ".">> \o Zeros((0 - e) - Len(ds)) \o ds

\* String(v) for the values the coercion engine converts
JsString(x) ==
  IF x.t = "str" THEN x.v
  ELSE IF x.t = "bool" THEN (IF x.v THEN <<"t", "r", "u", "e">> ELSE <<"f", "a", "l", "s", "e">>)
  ELSE IF x.t = "null" THEN <<"n", "u", "l", "l">>
  ELSE IF x.t = "undef" THEN <<"u", "n", "d", "e", "f", "i", "n", "e", "d">>
  ELSE IF x.t \in {"num", "negzero"} THEN NumberToString(x)
  ELSE IF x.t = "nan" THEN <<"N", "a", "N">>
  ELSE <<"I", "n", "f", "i", "n", "i", "t", "y">>

(***************************************************************************)
(* JSON.parse, for the tokens that the coercion engine hands to it.        *)
(* A parse step returns [ok, val, rest]; white space and string escapes    *)
(* do not occur in the tokens modelled.                                    *)
(***************************************************************************)
JsonFail == [ok |-> FALSE, val |-> Undef, rest |-> <<>>]
JsonOk(val, rest) == [ok |-> TRUE, val |-> val, rest |-> rest]
StartsWith(s, p) == Len(s) >= Len(p) /\ SubSeq(s, 1, Len(p)) = p

\* a character a JSON number may contain
IsNumberChar(c) == IsDigit(c) \/ c \in {"-", "+", ".", "e", "E"}

\* the longest prefix of s made of characters a JSON number may contain
NumberRun(s) ==
  IF \E i \in 1..Len(s) : ~IsNumberChar(s[i])
  THEN SubSeq(s, 1, (CHOOSE i \in 1..Len(s) : ~IsNumberChar(s[i]) /\ \A j \in 1..(i - 1) : IsNumberChar(s[j])) - 1)
  ELSE s

\* the JSON number grammar: -? (0 | [1-9] digits) (. digits+)? ([eE] [+-]? digits+)?
JsonExponent(r2) ==
  \/ Len(r2) = 0
  \/ /\ r2[1] \in {"e", "E"}
     /\ AllDigits(IF Len(r2) > 1 /\ r2[2] \in {"+", "-"} THEN SubSeq(r2, 3, Len(r2)) ELSE Tail(r2))
JsonFraction(fp, t) == Len(fp) > 0 /\ JsonExponent(SubSeq(t, Len(fp) + 1, Len(t)))
JsonAfterInteger(r1) ==
  IF Len(r1) > 0 /\ r1[1] = "." THEN JsonFraction(DigitRun(Tail(r1)), Tail(r1)) ELSE JsonExponent(r1)
JsonInteger(u, ip) ==
  Len(ip) > 0 /\ (Len(ip) = 1 \/ ip[1] # "0") /\ JsonAfterInteger(SubSeq(u, Len(ip) + 1, Len(u)))
JsonUnsigned(u) == JsonInteger(u, DigitRun(u))
IsJsonNumber(s) == JsonUnsigned(IF Len(s) > 0 /\ s[1] = "-" THEN Tail(s) ELSE s)

RECURSIVE JsonValue(_)
RECURSIVE JsonElements(_, _)
RECURSIVE JsonMembers(_, _)

\* the element r just read: "]" ends the array, "," announces the next element
AfterElement(r, acc) ==
  IF ~r.ok \/ Len(r.rest) = 0 THEN JsonFail
  ELSE IF r.rest[1] = "]" THEN JsonOk(Arr(Append(acc, r.val)), Tail(r.rest))
  ELSE IF r.rest[1] = "," THEN JsonElements(Tail(r.rest), Append(acc, r.val))
  ELSE JsonFail

\* after "[" and the elements read so far: the next element, then "," or "]"
JsonElements(s, acc) == AfterElement(JsonValue(s), acc)

\* the member value r just read under key: "}" ends the object, "," announces the next
AfterMember(key, r, acc) ==
  IF ~r.ok \/ Len(r.rest) = 0 THEN JsonFail
  ELSE IF r.rest[1] = "}" THEN JsonOk(Obj(SetProp(acc, key, r.val)), Tail(r.rest))
  ELSE IF r.rest[1] = "," THEN JsonMembers(Tail(r.rest), SetProp(acc, key, r.val))
  ELSE JsonFail

\* the key k just read: a string followed by ":" and the member value
AfterKey(k, acc) ==
  IF ~k.ok \/ k.val.t # "str" \/ Len(k.rest) = 0 \/ k.rest[1] # ":" THEN JsonFail
  ELSE AfterMember(k.val.v, JsonValue(Tail(k.rest)), acc)

\* after "{" and the members read so far: "key":value, then "," or "}"
JsonMembers(s, acc) == AfterKey(JsonValue(s), acc)

\* a string literal: q is the position of its closing quote in Tail(s), 0 when missing
JsonString(s, q) ==
  IF q = 0 THEN JsonFail ELSE JsonOk(Str(SubSeq(s, 2, q)), SubSeq(s, q + 2, Len(s)))

\* a number literal: run is the number-like prefix of s
JsonNumber(s, run) ==
  IF IsJsonNumber(run) THEN JsonOk(ToNumber(run), SubSeq(s, Len(run) + 1, Len(s))) ELSE JsonFail

JsonValue(s) ==
  IF Len(s) = 0 THEN JsonFail
  ELSE IF s[1] = "[" THEN
    (IF Len(s) > 1 /\ s[2] = "]" THEN JsonOk(Arr(<<>>), SubSeq(s, 3, Len(s)))
     ELSE JsonElements(Tail(s), <<>>))
  ELSE IF s[1] = "{" THEN
    (IF Len(s) > 1 /\ s[2] = "}" THEN JsonOk(Obj(<<>>), SubSeq(s, 3, Len(s)))
     ELSE JsonMembers(Tail(s), <<>>))
  ELSE IF s[1] = "\"" THEN JsonString(s, IndexOfChar(Tail(s), "\""))
  ELSE IF StartsWith(s, <<"t", "r", "u", "e">>) THEN JsonOk(Bool(TRUE), SubSeq(s, 5, Len(s)))
  ELSE IF StartsWith(s, <<"f", "a", "l", "s", "e">>) THEN JsonOk(Bool(FALSE), SubSeq(s, 6, Len(s)))
  ELSE IF StartsWith(s, <<"n", "u", "l", "l">>) THEN JsonOk(Null, SubSeq(s, 5, Len(s)))
  ELSE JsonNumber(s, NumberRun(s))

\* the whole text must be one value
WholeText(r) == IF r.ok /\ Len(r.rest) = 0 THEN r ELSE JsonFail

\* JSON.parse(s): the value, or ok = FALSE where JSON.parse throws a SyntaxError
JsonParse(s) == WholeText(JsonValue(s))

(***************************************************************************)
(* The schema coercion engine.                                             *)
(* A JSON Schema is a record holding only the fields it declares:          *)
(*   type (a string) or typeUnion (a list of strings, for a type array),   *)
(*   enum, const, items, anyOf, oneOf, allOf, properties,                  *)
(*   additionalProperties, default.                                        *)
(* A throw is returned as an Err value and propagated by every caller.     *)
(***************************************************************************)
Has(schema, field) == field \in DOMAIN schema

\* a === b
StrictEq(a, b) ==
  IF IsNumber(a) /\ IsNumber(b) THEN NumEq(a, b)
  ELSE IF IsContainer(a) \/ IsContainer(b) THEN FALSE
  ELSE a = b

\* typeof x
TypeOf(x) ==
  IF x.t = "str" THEN "string"
  ELSE IF x.t = "bool" THEN "boolean"
  ELSE IF IsNumber(x) THEN "number"
  ELSE IF x.t = "undef" THEN "undefined"
  ELSE "object"

schemaIsArray(schema) ==
  \/ Has(schema, "type") /\ schema.type = "array"
  \/ ~Has(schema, "type") /\ ~Has(schema, "typeUnion") /\ Has(schema, "items")

\* coerceToString converting a numeric string
coerceToString_AsNumber(value) ==
  IF value.t = "bool" THEN Str(JsString(value)) ELSE ToNumber(value.v)

coerceToString(value) ==
  IF value.t = "bool" THEN Str(JsString(value)) ELSE value

\* if (!Number.isFinite(num)) throw
FiniteOrThrow(num, value, optionName) ==
  IF ~IsFinite(num) THEN Err("expected number, got", <<optionName, value>>) ELSE num

\* coerceToNumber reading the digits without their sign
coerceToNumber_Unsigned(value, optionName) ==
  IF value.t = "bool" THEN (IF value.v THEN Num(1, 0) ELSE Num(0, 0))
  ELSE IF value.v = <<>> THEN Err("expected number, got empty string", <<optionName>>)
  ELSE FiniteOrThrow(ToNumber(IF value.v[1] = "-" THEN Tail(value.v) ELSE value.v), value, optionName)

coerceToNumber(value, optionName) ==
  IF value.t = "bool" THEN (IF value.v THEN Num(1, 0) ELSE Num(0, 0))
  ELSE IF value.v = <<>> THEN Err("expected number, got empty string", <<optionName>>)
  ELSE FiniteOrThrow(ToNumber(value.v), value, optionName)

\* if (num % 1 !== 0) throw
WholeOrThrow(num, value, optionName) ==
  IF IsErr(num) THEN num
  ELSE IF HasFraction(num) THEN Err("expected integer, got", <<optionName, value>>)
  ELSE num

coerceToInteger(value, optionName) == WholeOrThrow(coerceToNumber(value, optionName), value, optionName)

coerceToBoolean(value, optionName) ==
  IF value.t = "bool" THEN value
  ELSE IF value.v = <<"t", "r", "u", "e">> THEN Bool(TRUE)
  ELSE IF value.v = <<"f", "a", "l", "s", "e">> THEN Bool(FALSE)
  ELSE Err("expected true or false, got", <<optionName, value>>)

\* coerceToNull taking the boolean false for null as well
coerceToNull_FalseIsNull(value, optionName) ==
  IF value.t = "str" /\ value.v = <<>> THEN Null
  ELSE IF value = Bool(FALSE) THEN Null
  ELSE Err("expected empty string for null, got", <<optionName, value>>)

coerceToNull(value, optionName) ==
  IF value.t = "str" /\ value.v = <<>> THEN Null
  ELSE Err("expected empty string for null, got", <<optionName, value>>)

\* the parsed JSON text when it is of the kind wanted ("obj" or "arr"), else the throw
ParsedAs(kind, parsed, value, optionName) ==
  IF parsed.ok /\ parsed.val.t = kind THEN parsed.val
  ELSE IF kind = "obj" THEN Err("expected valid JSON object, got", <<optionName, value>>)
  ELSE Err("expected valid JSON array, got", <<optionName, value>>)

\* JSON.parse(value) for a string, a failed parse otherwise
ParsedText(value) == IF value.t = "str" THEN JsonParse(value.v) ELSE JsonFail

coerceToObject(value, optionName) ==
  IF value.t # "str" THEN Err("expected JSON object, got", <<optionName, TypeOf(value)>>)
  ELSE ParsedAs("obj", ParsedText(value), value, optionName)

coerceToArray(value, optionName) ==
  IF value.t # "str" THEN Err("expected JSON array, got", <<optionName, TypeOf(value)>>)
  ELSE ParsedAs("arr", ParsedText(value), value, optionName)

coerceToSingleType(value, targetType, optionName) ==
  CASE targetType = "string" -> coerceToString(value)
    [] targetType = "number" -> coerceToNumber(value, optionName)
    [] targetType = "integer" -> coerceToInteger(value, optionName)
    [] targetType = "boolean" -> coerceToBoolean(value, optionName)
    [] targetType = "null" -> coerceToNull(value, optionName)
    [] targetType = "object" -> coerceToObject(value, optionName)
    [] targetType = "array" -> coerceToArray(value, optionName)
    [] OTHER -> value

RECURSIVE FirstUnionType(_, _, _)
\* the result r of one type of the union: kept unless it threw
UnlessThrown(r, value, types, optionName) ==
  IF IsErr(r) THEN FirstUnionType(value, Tail(types), optionName) ELSE r

\* the union tried from its last type backwards
FirstUnionType_LastFirst(value, types, optionName) ==
  IF Len(types) = 0 THEN Err("expected one of the types, got", <<optionName, value>>)
  ELSE UnlessThrown(coerceToSingleType(value, types[Len(types)], optionName), value, types, optionName)

\* for (const t of schemaType) try { return coerceToSingleType(value, t) } catch {}
FirstUnionType(value, types, optionName) ==
  IF Len(types) = 0 THEN Err("expected one of the types, got", <<optionName, value>>)
  ELSE UnlessThrown(coerceToSingleType(value, types[1], optionName), value, types, optionName)

\* one round of the enum loop comparing the string forms only
EnumHit_StringOnly(value, a, num) ==
  IF JsString(value) = JsString(a) THEN a ELSE Undef

\* one round of the enum loop: what the value matched against the literal a returns,
\* undefined when it does not match; num is +String(value)
EnumHit(value, a, num) ==
  IF TypeOf(a) = "number"
  THEN (IF IsFinite(num) /\ NumEq(num, a) THEN num ELSE Undef)
  ELSE IF TypeOf(a) = "boolean"
  THEN (IF value = Str(<<"t", "r", "u", "e">>) /\ a = Bool(TRUE) THEN Bool(TRUE)
        ELSE IF value = Str(<<"f", "a", "l", "s", "e">>) /\ a = Bool(FALSE) THEN Bool(FALSE)
        ELSE IF value = a THEN value
        ELSE Undef)
  ELSE IF JsString(value) = JsString(a) THEN a
  ELSE Undef

RECURSIVE MatchEnum(_, _, _, _)
\* the round's hit returned, or the loop continued
HitOrNext(hit, value, allowed, all, optionName) ==
  IF hit = Undef THEN MatchEnum(value, Tail(allowed), all, optionName) ELSE hit

\* the enum loop: the first allowed literal the value matches
MatchEnum(value, allowed, all, optionName) ==
  IF Len(allowed) = 0 THEN Err("expected one of, got", <<optionName, all, value>>)
  ELSE HitOrNext(EnumHit(value, allowed[1], ToNumber(JsString(value))), value, allowed, all, optionName)

RECURSIVE coerceBySchema(_, _, _)
RECURSIVE CoerceEach(_, _, _)
RECURSIVE CoerceParsedItems(_, _, _)
RECURSIVE FirstVariant(_, _, _)

\* h in front of the array rest, unless rest is a throw
Prepend(h, rest) == IF IsErr(rest) THEN rest ELSE Arr(<<h>> \o rest.v)

\* the first element coerced to h: a throw wins, else the other elements follow
ThenEach(h, values, items, optionName) ==
  IF IsErr(h) THEN h ELSE Prepend(h, CoerceEach(Tail(values), items, optionName))

\* value.map((v) => coerceBySchema(v, items, optionName)): the first throw wins
CoerceEach(values, items, optionName) ==
  IF Len(values) = 0 THEN Arr(<<>>)
  ELSE ThenEach(coerceBySchema(values[1], items, optionName), values, items, optionName)

ThenParsedItems(h, values, items, optionName) ==
  IF IsErr(h) THEN h ELSE Prepend(h, CoerceParsedItems(Tail(values), items, optionName))

\* parsed.map: only the string and boolean items of a parsed JSON array are coerced
CoerceParsedItems(values, items, optionName) ==
  IF Len(values) = 0 THEN Arr(<<>>)
  ELSE ThenParsedItems(IF values[1].t \in {"str", "bool"}
                       THEN coerceBySchema(values[1], items, optionName)
                       ELSE values[1],
                       values, items, optionName)

\* the result r of one variant: kept unless it threw
UnlessVariantThrown(r, value, variants, optionName) ==
  IF IsErr(r) THEN FirstVariant(value, Tail(variants), optionName) ELSE r

\* for (const variant of variants) try { return coerceBySchema(value, variant) } catch {}
FirstVariant(value, variants, optionName) ==
  IF Len(variants) = 0 THEN Err("does not match any allowed type", <<optionName, value>>)
  ELSE UnlessVariantThrown(coerceBySchema(value, variants[1], optionName), value, variants, optionName)

\* schema.anyOf || schema.oneOf, empty when the schema has neither
UnionVariants(schema) ==
  IF Has(schema, "anyOf") THEN schema.anyOf
  ELSE IF Has(schema, "oneOf") THEN schema.oneOf
  ELSE <<>>

\* the occurrences coerced by the items schema of an array schema, as they are without one
EachByItems(value, arraySchema, optionName) ==
  IF Has(arraySchema, "items") THEN CoerceEach(value.v, arraySchema.items, optionName) ELSE value

\* variants.find((v) => schemaIsArray(v)) decides, the array variants being given
ByArrayVariant(value, arrayVariants, optionName) ==
  IF Len(arrayVariants) > 0 THEN EachByItems(value, arrayVariants[1], optionName)
  ELSE Err("does not accept multiple values", <<optionName>>)

\* the repeated-flag branch: value is an array of the flag's occurrences
CoerceRepeated(value, schema, optionName) ==
  IF schemaIsArray(schema) \/ (Has(schema, "typeUnion") /\ Includes(schema.typeUnion, "array"))
  THEN EachByItems(value, schema, optionName)
  ELSE ByArrayVariant(value, SelectSeq(UnionVariants(schema), schemaIsArray), optionName)

\* [coerced], unless the coercion threw
Wrapped(one) == IF IsErr(one) THEN one ELSE Arr(<<one>>)

\* a single value under an array schema wrapped without looking at the parsed text
ParsedOrWrapped_AlwaysWrapped(parsed, value, schema, optionName) ==
  IF Has(schema, "items") THEN Wrapped(coerceBySchema(value, schema.items, optionName))
  ELSE Arr(<<value>>)

\* a single value under an array schema, parsed being JSON.parse(value) when it is a string
ParsedOrWrapped(parsed, value, schema, optionName) ==
  IF parsed.ok /\ parsed.val.t = "arr"
  THEN (IF Has(schema, "items")
        THEN CoerceParsedItems(parsed.val.v, schema.items, optionName)
        ELSE parsed.val)
  ELSE IF Has(schema, "items") THEN Wrapped(coerceBySchema(value, schema.items, optionName))
  ELSE Arr(<<value>>)

\* the array-schema branch for a single value
CoerceSingleToArray(value, schema, optionName) ==
  ParsedOrWrapped(ParsedText(value), value, schema, optionName)

\* the coerced value when it is the const, else the throw
SameAsConst(coerced, constVal, value, optionName) ==
  IF IsErr(coerced) THEN coerced
  ELSE IF StrictEq(coerced, constVal) THEN coerced
  ELSE Err("expected const, got", <<optionName, constVal, value>>)

\* the const branch
CoerceConst(value, schema, optionName) ==
  SameAsConst(coerceToSingleType(value,
                                 IF schema.const.t = "null" THEN "null" ELSE TypeOf(schema.const),
                                 optionName),
              schema.const, value, optionName)

coerceBySchema(value, schema, optionName) ==
  IF value.t = "arr" THEN CoerceRepeated(value, schema, optionName)
  ELSE IF schemaIsArray(schema) THEN CoerceSingleToArray(value, schema, optionName)
  ELSE IF Has(schema, "enum") THEN MatchEnum(value, schema.enum, schema.enum, optionName)
  ELSE IF Has(schema, "const") THEN CoerceConst(value, schema, optionName)
  ELSE IF Has(schema, "anyOf") \/ Has(schema, "oneOf")
  THEN FirstVariant(value, UnionVariants(schema), optionName)
  ELSE IF Has(schema, "allOf") /\ Len(schema.allOf) > 0
  THEN coerceBySchema(value, schema.allOf[1], optionName)
  ELSE IF Has(schema, "typeUnion") \/ Has(schema, "type")
  THEN (IF Has(schema, "typeUnion")
        THEN FirstUnionType(value, schema.typeUnion, optionName)
        ELSE coerceToSingleType(value, schema.type, optionName))
  ELSE IF Has(schema, "properties") \/ Has(schema, "additionalProperties")
  THEN coerceToSingleType(value, "object", optionName)
  ELSE value

(***************************************************************************)
(* Utility functions of the framework                                      *)
(***************************************************************************)
LowerSeq == <<"a", "b", "c", "d", "e", "f", "g", "h", "i", "j", "k", "l", "m",
              "n", "o", "p", "q", "r", "s", "t", "u", "v", "w", "x", "y", "z">>
UpperSeq == <<"A", "B", "C", "D", "E", "F", "G", "H", "I", "J", "K", "L", "M",
              "N", "O", "P", "Q", "R", "S", "T", "U", "V", "W", "X", "Y", "Z">>
IsLower(c) == c \in LowerCase
ToUpper(c) == UpperSeq[CHOOSE i \in 1..Len(LowerSeq) : LowerSeq[i] = c]

\* v.replace(/[<[].+/, '').trim(): cut at the first bracket that has a character after it
removeBrackets(v) ==
  LET isOpen(i) == v[i] \in {"<", "["} /\ i < Len(v)
  IN IF \E i \in 1..Len(v) : isOpen(i)
     THEN Trim(SubSeq(v, 1, (CHOOSE i \in 1..Len(v) : isOpen(i) /\ \A j \in 1..(i - 1) : ~isOpen(j)) - 1))
     ELSE Trim(v)

\* one bracket match: its kind and its inner text, "..." marking a variadic argument
BracketArg(required, inner) ==
  LET variadic == StartsWith(inner, <<".", ".", ".">>)
  IN [required |-> required,
      value |-> IF variadic THEN SubSeq(inner, 4, Len(inner)) ELSE inner,
      variadic |-> variadic]

RECURSIVE BracketMatches(_, _, _, _)
\* the global regular expression open ([^close]+) close, scanned from position from
BracketMatches(v, from, open, close) ==
  IF from > Len(v) THEN <<>>
  ELSE IF v[from] # open THEN BracketMatches(v, from + 1, open, close)
  ELSE LET rest == SubSeq(v, from + 1, Len(v))
           q == IndexOfChar(rest, close)
       IN IF q <= 1 THEN BracketMatches(v, from + 1, open, close)
          ELSE <<BracketArg(open = "<", SubSeq(rest, 1, q - 1))>>
                 \o BracketMatches(v, from + q + 1, open, close)

\* every <x> of the raw name, then every [x]
findAllBrackets(v) == BracketMatches(v, 1, "<", ">") \o BracketMatches(v, 1, "[", "]")

RECURSIVE camelcase(_)
\* input.replace(/([a-z])-([a-z])/g, (_, p1, p2) => p1 + p2.toUpperCase())
camelcase(input) ==
  IF Len(input) < 3 THEN input
  ELSE IF IsLower(input[1]) /\ input[2] = "-" /\ IsLower(input[3])
  THEN <<input[1], ToUpper(input[3])>> \o camelcase(SubSeq(input, 4, Len(input)))
  ELSE <<input[1]>> \o camelcase(Tail(input))

\* only the part before the first dot is camelcased
camelcaseOptionName(name) ==
  LET parts == SplitOn(name, ".")
  IN JoinWith(<<camelcase(parts[1])>> \o Tail(parts), ".")

\* +key > -1, the test that picks [] over {} for a missing level
IsIndexLike(key) ==
  LET n == ToNumber(key)
  IN \/ n.t = "negzero"
     \/ n.t = "inf" /\ key[1] # "-"
     \/ n.t = "num" /\ (n.v[1] >= 0 \/ Len(NatToString(0 - n.v[1])) <= 0 - n.v[2])

\* the own properties of a container, a dense array listing its indices
PropsOf(x) == IF x.t = "arr" THEN [i \in 1..Len(x.v) |-> <<NatToString(i - 1), x.v[i]>>] ELSE x.v
\* the container x with its properties replaced
WithProps(x, pairs) == IF x.t = "arr" THEN Sparse(pairs) ELSE [x EXCEPT !.v = pairs]

RECURSIVE setDotProp(_, _, _)
\* obj[k1][k2]...[kn] = val on the properties of obj: [ok, obj] or [ok, err].  A missing
\* level becomes {} or []; a level holding a primitive makes the strict-mode assignment throw
setDotProp(pairs, keys, val) ==
  IF Len(keys) = 1 THEN [ok |-> TRUE, obj |-> SetProp(pairs, keys[1], val)]
  ELSE LET x == GetProp(pairs, keys[1])
           level == IF ~IsNullish(x) THEN x
                    ELSE IF IsIndexLike(keys[2]) THEN Sparse(<<>>) ELSE Obj(<<>>)
       IN IF ~IsContainer(level)
          THEN [ok |-> FALSE, err |-> Err("TypeError: Cannot create property", <<keys[2]>>)]
          ELSE LET inner == setDotProp(PropsOf(level), Tail(keys), val)
               IN IF ~inner.ok THEN inner
                  ELSE [ok |-> TRUE, obj |-> SetProp(pairs, keys[1], WithProps(level, inner.obj))]

(***************************************************************************)
(* The vendored mri tokenizer.  goke passes only alias and boolean, so the *)
(* string, default and unknown branches of mri never run and are left out. *)
(***************************************************************************)
\* toArr(alias[k]) for the alias lists getMriOptions builds
toArr(any) == IF IsNullish(any) THEN <<>> ELSE any.v

\* toVal storing the value of a boolean name as it is given
toVal_Unforced(out, key, val, boolean) ==
  LET old == GetProp(out, key)
  IN SetProp(out, key,
             IF IsNullish(old) THEN val
             ELSE IF old.t = "arr" THEN Arr(Append(old.v, val))
             ELSE Arr(<<old, val>>))

\* toVal collecting a repeated key with the newest value first
toVal_NewestFirst(out, key, val, boolean) ==
  LET old == GetProp(out, key)
      pushes == ~IsBool(val) /\ Includes(boolean, key)
                  /\ val.v \notin {<<"f", "a", "l", "s", "e">>, <<"t", "r", "u", "e">>}
      nxt == IF IsBool(val) THEN val
             ELSE IF Includes(boolean, key)
             THEN (IF val.v = <<"f", "a", "l", "s", "e">> THEN Bool(FALSE)
                   ELSE IF val.v = <<"t", "r", "u", "e">> THEN Bool(TRUE)
                   ELSE Bool(Len(val.v) > 0))
             ELSE val
      out1 == IF pushes THEN SetProp(out, <<"_">>, Arr(Append(GetProp(out, <<"_">>).v, val))) ELSE out
  IN SetProp(out1, key,
             IF IsNullish(old) THEN nxt
             ELSE IF old.t = "arr" THEN Arr(<<nxt>> \o old.v)
             ELSE Arr(<<nxt, old>>))

\* out[key] = old == null ? nxt : Array.isArray(old) ? old.concat(nxt) : [old, nxt]
toVal(out, key, val, boolean) ==
  LET old == GetProp(out, key)
      pushes == ~IsBool(val) /\ Includes(boolean, key)
                  /\ val.v \notin {<<"f", "a", "l", "s", "e">>, <<"t", "r", "u", "e">>}
      nxt == IF IsBool(val) THEN val
             ELSE IF Includes(boolean, key)
             THEN (IF val.v = <<"f", "a", "l", "s", "e">> THEN Bool(FALSE)
                   ELSE IF val.v = <<"t", "r", "u", "e">> THEN Bool(TRUE)
                   ELSE Bool(Len(val.v) > 0))
             ELSE val
      out1 == IF pushes THEN SetProp(out, <<"_">>, Arr(Append(GetProp(out, <<"_">>).v, val))) ELSE out
  IN SetProp(out1, key,
             IF IsNullish(old) THEN nxt
             ELSE IF old.t = "arr" THEN Arr(Append(old.v, nxt))
             ELSE Arr(<<old, nxt>>))

RECURSIVE ExpandAlias(_, _, _, _)
\* (alias[arr[i]] = arr.concat(k)).splice(i, 1), for i = 0 .. arr.length - 1
ExpandAlias(alias, k, arr, i) ==
  IF i > Len(arr) THEN alias
  ELSE ExpandAlias(SetProp(alias, arr[i], Arr(SubSeq(arr, 1, i - 1) \o SubSeq(arr, i + 1, Len(arr)) \o <<k>>)),
                   k, arr, i + 1)

RECURSIVE ExpandAliases(_, _)
\* for (k in alias): the keys present when the loop starts, in key order
ExpandAliases(alias, ks) ==
  IF Len(ks) = 0 THEN alias
  ELSE ExpandAliases(ExpandAlias(alias, ks[1], toArr(GetProp(alias, ks[1])), 1), Tail(ks))

RECURSIVE ExpandBoolean(_, _, _)
\* every alias of a boolean name is boolean too (i counts down from the original length)
ExpandBoolean(boolean, alias, i) ==
  IF i = 0 THEN boolean
  ELSE LET arr == toArr(GetProp(alias, boolean[i]))
       IN ExpandBoolean(boolean \o [j \in 1..Len(arr) |-> arr[Len(arr) + 1 - j]], alias, i - 1)

\* the number of leading "-" of a token
LeadingDashes(arg) ==
  IF \A p \in 1..Len(arg) : arg[p] = "-" THEN Len(arg)
  ELSE (CHOOSE p \in 1..Len(arg) : arg[p] # "-" /\ \A q \in 1..(p - 1) : arg[q] = "-") - 1

\* the 0-based index of the first "=" at or after index j + 1, else the length
EqualsIndex(arg, j) ==
  IF \E p \in (j + 2)..Len(arg) : arg[p] = "="
  THEN (CHOOSE p \in (j + 2)..Len(arg) : arg[p] = "=" /\ \A q \in (j + 2)..(p - 1) : arg[q] # "=") - 1
  ELSE Len(arg)

RECURSIVE FlagGroup(_, _, _, _, _)
\* for (idx = 0; idx < arr.length; idx++) toVal(out, arr[idx], idx + 1 < arr.length || val)
FlagGroup(out, arr, idx, val, boolean) ==
  IF idx > Len(arr) THEN out
  ELSE FlagGroup(toVal(out, arr[idx], IF idx < Len(arr) THEN Bool(TRUE) ELSE val, boolean),
                 arr, idx + 1, val, boolean)

RECURSIVE MriLoop(_, _, _, _)
\* the names a flag token sets: the whole name after "--", each character otherwise
FlagNamesOf(name, j) == IF j = 2 THEN <<name>> ELSE [p \in 1..Len(name) |-> <<name[p]>>]

\* a flag token taking the next token whatever it begins with
TakesNext_EvenDashed(argv, i, inline) == Len(inline) = 0 /\ i < Len(argv)

\* a flag token takes the next token as its value: nothing follows its "=", a next token
\* exists and does not begin with "-"
TakesNext(argv, i, inline) ==
  Len(inline) = 0 /\ i < Len(argv) /\ ~(Len(argv[i + 1]) > 0 /\ argv[i + 1][1] = "-")

\* a flag token: arg.substring(++idx) || (i + 1 === len || next begins with "-" || args[++i])
FlagToken(argv, i, out, boolean, name, inline, j) ==
  MriLoop(argv, IF TakesNext(argv, i, inline) THEN i + 2 ELSE i + 1,
          FlagGroup(out, FlagNamesOf(name, j), 1,
                    IF Len(inline) > 0 THEN Str(inline)
                    ELSE IF TakesNext(argv, i, inline) THEN Str(argv[i + 1])
                    ELSE Bool(TRUE),
                    boolean),
          boolean)

\* a token with j leading dashes whose "=" search stopped at index idx
DashedToken(argv, i, out, boolean, j, idx) ==
  FlagToken(argv, i, out, boolean, Substring(argv[i], j, idx), SubstringFrom(argv[i], idx + 1), j)

\* the main loop of mri over args[i..]
MriLoop(argv, i, out, boolean) ==
  IF i > Len(argv) THEN out
  ELSE IF argv[i] = <<"-", "-">>
  THEN SetProp(out, <<"_">>, Arr(GetProp(out, <<"_">>).v \o [p \in 1..(Len(argv) - i) |-> Str(argv[i + p])]))
  ELSE IF LeadingDashes(argv[i]) = 0
  THEN MriLoop(argv, i + 1, SetProp(out, <<"_">>, Arr(Append(GetProp(out, <<"_">>).v, Str(argv[i])))), boolean)
  ELSE DashedToken(argv, i, out, boolean, LeadingDashes(argv[i]),
                   EqualsIndex(argv[i], LeadingDashes(argv[i])))

RECURSIVE CopyToAliases(_, _, _, _)
\* while (arr.length > 0) out[arr.shift()] = out[k]
CopyToAliases(out, k, arr, n) ==
  IF n > Len(arr) THEN out ELSE CopyToAliases(SetProp(out, arr[n], GetProp(out, k)), k, arr, n + 1)

RECURSIVE MirrorAliases(_, _, _)
\* for (k in out) { arr = alias[k] || []; while (arr.length > 0) out[arr.shift()] = out[k] }
MirrorAliases(out, alias, ks) ==
  IF Len(ks) = 0 THEN out
  ELSE MirrorAliases(CopyToAliases(out, ks[1], toArr(GetProp(alias, ks[1])), 1),
                     SetProp(alias, ks[1], Arr(<<>>)), Tail(ks))

\* the flags collected by the main loop, mirrored onto their aliases
Mirrored(out, alias) == MirrorAliases(out, alias, OwnKeys(out))

\* the main loop and the mirroring, with the aliases expanded
MriWith(argv, alias, boolean) ==
  Mirrored(MriLoop(argv, 1, <<<<<<"_">>, Arr(<<>>)>>>>, ExpandBoolean(boolean, alias, Len(boolean))), alias)

\* mri(args, { alias, boolean })
mri(argv, opts) == MriWith(argv, ExpandAliases(opts.alias, OwnKeys(opts.alias)), opts.boolean)

(***************************************************************************)
(* Options and commands                                                    *)
(***************************************************************************)
\* the comparator of the names sort: (a, b) => (a.length > b.length ? 1 : -1)
CompareNames(a, b) == IF Len(a) > Len(b) THEN 1 ELSE 0 - 1

\* the length of the ascending or strictly descending run the array starts with
RunLength(s) ==
  IF Len(s) < 2 THEN Len(s)
  ELSE LET desc == CompareNames(s[2], s[1]) < 0
           stops(k) == (CompareNames(s[k], s[k - 1]) < 0) # desc
       IN IF \E k \in 3..Len(s) : stops(k)
          THEN (CHOOSE k \in 3..Len(s) : stops(k) /\ \A q \in 3..(k - 1) : ~stops(q)) - 1
          ELSE Len(s)

RECURSIVE InsertPoint(_, _, _, _)
\* the binary search of the insertion sort: the index before which pivot goes
InsertPoint(sorted, pivot, left, right) ==
  IF left >= right THEN left
  ELSE LET mid == left + ((right - left) \div 2)
       IN IF CompareNames(pivot, sorted[mid + 1]) < 0
          THEN InsertPoint(sorted, pivot, left, mid)
          ELSE InsertPoint(sorted, pivot, mid + 1, right)

RECURSIVE InsertRest(_, _)
InsertRest(sorted, rest) ==
  IF Len(rest) = 0 THEN sorted
  ELSE LET at == InsertPoint(sorted, rest[1], 0, Len(sorted))
       IN InsertRest(SubSeq(sorted, 1, at) \o <<rest[1]>> \o SubSeq(sorted, at + 1, Len(sorted)), Tail(rest))

\* names.sort(comparator) as the engine sorts a short array: the initial run is
\* reversed when descending, the other names go in by binary insertion
SortNames(s) ==
  LET n == RunLength(s)
      desc == Len(s) >= 2 /\ CompareNames(s[2], s[1]) < 0
      run == IF desc THEN [i \in 1..n |-> s[n + 1 - i]] ELSE SubSeq(s, 1, n)
  IN InsertRest(run, SubSeq(s, n + 1, Len(s)))

RECURSIVE RemoveDotStar(_)
\* rawName.replace(/\.\*/g, '')
RemoveDotStar(s) ==
  IF Len(s) < 2 THEN s
  ELSE IF s[1] = "." /\ s[2] = "*" THEN RemoveDotStar(SubSeq(s, 3, Len(s)))
  ELSE <<s[1]>> \o RemoveDotStar(Tail(s))

\* v.trim().replace(/^-{1,2}/, '')
StripDashes(v) ==
  LET t == Trim(v)
  IN IF Len(t) >= 2 /\ t[1] = "-" /\ t[2] = "-" THEN SubSeq(t, 3, Len(t))
     ELSE IF Len(t) >= 1 /\ t[1] = "-" THEN Tail(t)
     ELSE t

NoSchema == <<>>
\* new Option(rawName, schema): schema is <<>> or <<jsonSchema>>.  required is
\* TRUE for <..>, FALSE for [..]; isBoolean marks the option whose required is undefined
Option(rawName, schema) ==
  LET raw == RemoveDotStar(rawName)
      parts == SplitOn(removeBrackets(raw), ",")
      names == SortNames([i \in 1..Len(parts) |-> camelcaseOptionName(StripDashes(parts[i]))])
  IN [rawName |-> rawName,
      names |-> names,
      name |-> names[Len(names)],
      required |-> Includes(raw, "<"),
      isBoolean |-> ~Includes(raw, "<") /\ ~Includes(raw, "["),
      schema |-> schema,
      default |-> IF Len(schema) = 1 /\ Has(schema[1], "default") THEN schema[1].default ELSE Undef]

\* new Command(rawName, ...) followed by its .option(), .alias(), .action() calls
Command(rawName, opts, aliasNames, config, hasAction) ==
  [rawName |-> rawName,
   name |-> removeBrackets(rawName),
   args |-> findAllBrackets(rawName),
   options |-> opts,
   aliasNames |-> aliasNames,
   config |-> config,
   commandAction |-> hasAction]

\* this.name.split(' ').filter(Boolean)
NameParts(name) == FilterNonEmpty(SplitOn(name, " "))

\* Command.isMatched(args) on the positional values
isMatched(command, positionals) ==
  LET nameParts == NameParts(command.name)
      fits(i) == \/ Str(nameParts[i]) = positionals[i]
                 \/ i = 1 /\ \E a \in 1..Len(command.aliasNames) : Str(command.aliasNames[a]) = positionals[1]
  IN IF Len(nameParts) = 0 \/ Len(positionals) < Len(nameParts) \/ \E i \in 1..Len(nameParts) : ~fits(i)
     THEN [matched |-> FALSE, consumedArgs |-> 0]
     ELSE [matched |-> TRUE, consumedArgs |-> Len(nameParts)]

\* Command.hasOption(name) on a list of options
hasOption(opts, name) ==
  \E i \in 1..Len(opts) : Includes(opts[i].names, SplitOn(name, ".")[1])

RECURSIVE getMriOptions(_)
\* alias[names[0]] = names.slice(1) when there are several names; boolean names[0]
getMriOptions(opts) ==
  IF Len(opts) = 0 THEN [alias |-> <<>>, boolean |-> <<>>]
  ELSE LET before == getMriOptions(SubSeq(opts, 1, Len(opts) - 1))
           option == opts[Len(opts)]
       IN [alias |-> IF Len(option.names) > 1
                     THEN SetProp(before.alias, option.names[1], Arr(Tail(option.names)))
                     ELSE before.alias,
           boolean |-> IF option.isBoolean THEN Append(before.boolean, option.names[1])
                       ELSE before.boolean]

(***************************************************************************)
(* Goke.mri: tokenize, camelcase the keys, lay down the defaults, coerce   *)
(* by schema and store every key at its dot path.  A thrown error is the   *)
(* result [ok |-> FALSE, err |-> e].                                       *)
(***************************************************************************)
Thrown(e) == [ok |-> FALSE, err |-> e]

\* argv.indexOf('--') as a 1-based position, 0 when absent
DoubleDashIndex(argv) ==
  IF \E i \in 1..Len(argv) : argv[i] = <<"-", "-">>
  THEN CHOOSE i \in 1..Len(argv) : argv[i] = <<"-", "-">> /\ \A j \in 1..(i - 1) : argv[j] # <<"-", "-">>
  ELSE 0

RECURSIVE CamelcaseKeys(_, _, _)
\* Object.keys(parsed).reduce((res, name) => ({...res, [camelcaseOptionName(name)]: parsed[name]}), {_: []})
CamelcaseKeys(parsed, ks, res) ==
  IF Len(ks) = 0 THEN res
  ELSE CamelcaseKeys(parsed, Tail(ks), SetProp(res, camelcaseOptionName(ks[1]), GetProp(parsed, ks[1])))

RECURSIVE DefaultAssignments(_)
\* the setDotProp calls of the defaults loop, in order: one per name of each option with a default
DefaultAssignments(cliOptions) ==
  IF Len(cliOptions) = 0 THEN <<>>
  ELSE LET o == cliOptions[1]
       IN (IF o.default # Undef
           THEN [i \in 1..Len(o.names) |-> [keys |-> SplitOn(o.names[i], "."), val |-> o.default]]
           ELSE <<>>) \o DefaultAssignments(Tail(cliOptions))

RECURSIVE SetDefaults(_, _)
SetDefaults(opts, assignments) ==
  IF Len(assignments) = 0 THEN [ok |-> TRUE, obj |-> opts]
  ELSE LET r == setDotProp(opts, assignments[1].keys, assignments[1].val)
       IN IF ~r.ok THEN r ELSE SetDefaults(r.obj, Tail(assignments))

\* schemaMap.get(key): the last schema-backed option listing key among its names, 0 if none
SchemaOption(cliOptions, key) ==
  LET hits == {i \in 1..Len(cliOptions) : Len(cliOptions[i].schema) = 1 /\ Includes(cliOptions[i].names, key)}
  IN IF hits = {} THEN 0 ELSE CHOOSE i \in hits : \A j \in hits : j <= i

requiredValueOptions(cliOptions, key) ==
  \E i \in 1..Len(cliOptions) : cliOptions[i].required /\ Includes(cliOptions[i].names, key)
optionalValueOptions(cliOptions, key) ==
  \E i \in 1..Len(cliOptions) :
    ~cliOptions[i].required /\ ~cliOptions[i].isBoolean /\ Includes(cliOptions[i].names, key)

\* OptionValue keeping the sentinel true for an optional option with a schema
OptionValue_KeepSentinel(cliOptions, key, value) ==
  LET si == SchemaOption(cliOptions, key)
  IN IF si = 0 \/ value = Undef THEN value
     ELSE IF IsTrue(value) /\ requiredValueOptions(cliOptions, key) THEN value
     ELSE IF IsTrue(value) /\ optionalValueOptions(cliOptions, key) THEN value
     ELSE coerceBySchema(value, cliOptions[si].schema[1], cliOptions[si].name)

\* the value stored for one parsed key: the sentinel true is kept for a required option,
\* becomes undefined for an optional option with a schema, anything else is coerced
OptionValue(cliOptions, key, value) ==
  LET si == SchemaOption(cliOptions, key)
  IN IF si = 0 \/ value = Undef THEN value
     ELSE IF IsTrue(value) /\ requiredValueOptions(cliOptions, key) THEN value
     ELSE IF IsTrue(value) /\ optionalValueOptions(cliOptions, key) THEN Undef
     ELSE coerceBySchema(value, cliOptions[si].schema[1], cliOptions[si].name)

RECURSIVE SetOptions(_, _, _, _)
\* for (const key of Object.keys(parsed)) if (key !== '_') setDotProp(options, key.split('.'), value)
SetOptions(cliOptions, parsed, ks, opts) ==
  IF Len(ks) = 0 THEN [ok |-> TRUE, obj |-> opts]
  ELSE IF ks[1] = <<"_">> THEN SetOptions(cliOptions, parsed, Tail(ks), opts)
  ELSE LET value == OptionValue(cliOptions, ks[1], GetProp(parsed, ks[1]))
       IN IF IsErr(value) THEN Thrown(value)
          ELSE LET r == setDotProp(opts, SplitOn(ks[1], "."), value)
               IN IF ~r.ok THEN r ELSE SetOptions(cliOptions, parsed, Tail(ks), r.obj)

\* the options of the global command, then those of the command
CliOptions(reg, command) ==
  reg.globalOptions \o (IF command = 0 THEN <<>> ELSE reg.commands[command].options)

\* command && command.config.ignoreOptionDefaultValue ? ... : this.globalCommand.config...
IgnoreDefault(reg, command) ==
  IF command # 0 /\ reg.commands[command].config.ignoreOptionDefaultValue
  THEN TRUE ELSE reg.globalConfig.ignoreOptionDefaultValue

\* argv.slice(doubleDashesIndex + 1), empty when there is no "--"
ArgsAfterDoubleDashes(argv, dd) ==
  IF dd = 0 THEN <<>> ELSE [i \in 1..(Len(argv) - dd) |-> Str(argv[dd + i])]
\* ArgsBeforeDoubleDashes handing the whole argv to the tokenizer
ArgsBeforeDoubleDashes_Whole(argv, dd) == argv

\* argv.slice(0, doubleDashesIndex)
ArgsBeforeDoubleDashes(argv, dd) == IF dd = 0 THEN argv ELSE SubSeq(argv, 1, dd - 1)

\* the parsed argv returned, or the error thrown while the values were stored
ParsedArgv(parsed, stored) ==
  IF ~stored.ok THEN stored
  ELSE [ok |-> TRUE, args |-> GetProp(parsed, <<"_">>).v, options |-> stored.obj]

\* the values of the parsed keys stored over the defaults
StoreOver(cliOptions, parsed, defaults) ==
  IF ~defaults.ok THEN defaults
  ELSE ParsedArgv(parsed, SetOptions(cliOptions, parsed, OwnKeys(parsed), defaults.obj))

\* options = {'--': rest} with the defaults laid down, then the parsed values
StoreOptions(cliOptions, ignoreDefault, rest, parsed) ==
  StoreOver(cliOptions, parsed,
            IF ignoreDefault THEN [ok |-> TRUE, obj |-> <<<<<<"-", "-">>, Arr(rest)>>>>]
            ELSE SetDefaults(<<<<<<"-", "-">>, Arr(rest)>>>>, DefaultAssignments(cliOptions)))

\* the keys of what mri returned, camelcased
Camelcased(tokens) == CamelcaseKeys(tokens, OwnKeys(tokens), <<<<<<"_">>, Arr(<<>>)>>>>)

\* Goke.mri(argv, command): command is an index into reg.commands, 0 for none
Goke_mri(reg, argv, command) ==
  StoreOptions(CliOptions(reg, command), IgnoreDefault(reg, command),
               ArgsAfterDoubleDashes(argv, DoubleDashIndex(argv)),
               Camelcased(mri(ArgsBeforeDoubleDashes(argv, DoubleDashIndex(argv)),
                              getMriOptions(CliOptions(reg, command)))))

(***************************************************************************)
(* Validation of a matched command and dispatch to its handler             *)
(***************************************************************************)
NoError == [t |-> "ok", v |-> <<>>]

\* Boolean(x)
Truthy(x) ==
  CASE x.t = "str" -> Len(x.v) > 0
    [] x.t = "bool" -> x.v
    [] x.t = "num" -> x.v[1] # 0
    [] x.t \in {"undef", "null", "nan", "negzero"} -> FALSE
    [] OTHER -> TRUE

\* x[key] for a value reached while walking a dot path
PropOfValue(x, key) ==
  IF x.t \in {"obj", "sparse"} THEN GetProp(x.v, key)
  ELSE IF x.t = "arr"
  THEN (IF key = <<"l", "e", "n", "g", "t", "h">> THEN NormNum(Len(x.v), 0)
        ELSE IF IsArrayIndex(key) /\ DecimalValue(key) < Len(x.v) THEN x.v[DecimalValue(key) + 1]
        ELSE Undef)
  ELSE Undef

RECURSIVE PathValue(_, _)
\* the walk of checkOptionValue along option.name.split('.')
PathValue(value, keys) ==
  IF Len(keys) = 0 THEN value
  ELSE IF IsContainer(value) THEN PathValue(PropOfValue(value, keys[1]), Tail(keys))
  ELSE Undef

\* checkUnknownOptions writing every flag with two dashes
checkUnknownOptions_TwoDashes(reg, command, opts) ==
  LET ks == OwnKeys(opts)
      unknown(i) == /\ ks[i] # <<"-", "-">>
                    /\ ~hasOption(reg.commands[command].options, ks[i])
                    /\ ~hasOption(reg.globalOptions, ks[i])
  IN IF reg.commands[command].config.allowUnknownOptions \/ ~\E i \in 1..Len(ks) : unknown(i)
     THEN NoError
     ELSE LET name == ks[CHOOSE i \in 1..Len(ks) : unknown(i) /\ \A j \in 1..(i - 1) : ~unknown(j)]
          IN Err("Unknown option", <<<<"-", "-">> \o name>>)

\* Command.checkUnknownOptions(): the first key of the parsed options, in Object.keys
\* order, that neither the command nor the global command declares
checkUnknownOptions(reg, command, opts) ==
  LET ks == OwnKeys(opts)
      unknown(i) == /\ ks[i] # <<"-", "-">>
                    /\ ~hasOption(reg.commands[command].options, ks[i])
                    /\ ~hasOption(reg.globalOptions, ks[i])
  IN IF reg.commands[command].config.allowUnknownOptions \/ ~\E i \in 1..Len(ks) : unknown(i)
     THEN NoError
     ELSE LET name == ks[CHOOSE i \in 1..Len(ks) : unknown(i) /\ \A j \in 1..(i - 1) : ~unknown(j)]
          IN Err("Unknown option", <<(IF Len(name) > 1 THEN <<"-", "-">> ELSE <<"-">>) \o name>>)

\* Command.checkOptionValue(): a required option whose value is true or false
checkOptionValue(reg, command, opts) ==
  LET all == reg.globalOptions \o reg.commands[command].options
      missing(i) == all[i].required /\ IsBool(PathValue(Obj(opts), SplitOn(all[i].name, ".")))
  IN IF ~\E i \in 1..Len(all) : missing(i) THEN NoError
     ELSE Err("value is missing",
              <<all[CHOOSE i \in 1..Len(all) : missing(i) /\ \A j \in 1..(i - 1) : ~missing(j)].rawName>>)

\* checkRequiredArgs counting every declared slot, optional ones included
checkRequiredArgs_EverySlot(reg, command, positionals) ==
  IF Len(positionals) < Len(reg.commands[command].args)
  THEN Err("missing required args for command", <<reg.commands[command].rawName>>)
  ELSE NoError

\* Command.checkRequiredArgs()
checkRequiredArgs(reg, command, positionals) ==
  LET cmdArgs == reg.commands[command].args
      minimalArgsCount == Cardinality({i \in 1..Len(cmdArgs) : cmdArgs[i].required})
  IN IF Len(positionals) < minimalArgsCount
     THEN Err("missing required args for command", <<reg.commands[command].rawName>>)
     ELSE NoError

\* the arguments the handler is applied to: one per declared bracket, then the options
ActionArgs(reg, command, positionals, opts) ==
  LET cmdArgs == reg.commands[command].args
  IN [i \in 1..Len(cmdArgs) |->
        IF cmdArgs[i].variadic THEN Arr(SubSeq(positionals, i, Len(positionals)))
        ELSE IF i <= Len(positionals) THEN positionals[i] ELSE Undef]
     \o <<Obj(opts)>>

\* Goke.runMatchedCommand(): [error, invoked, actionArgs]; invoked is the index of the
\* command whose handler ran, 0 when none did
runMatchedCommand(reg, st) ==
  LET command == st.matchedCommand
      quiet == [error |-> NoError, invoked |-> 0, actionArgs |-> <<>>]
  IN IF command = 0 THEN quiet
     ELSE IF ~reg.commands[command].commandAction THEN quiet
     ELSE LET e1 == checkUnknownOptions(reg, command, st.options)
              e2 == checkOptionValue(reg, command, st.options)
              e3 == checkRequiredArgs(reg, command, st.args)
          IN IF IsErr(e1) THEN [quiet EXCEPT !.error = e1]
             ELSE IF IsErr(e2) THEN [quiet EXCEPT !.error = e2]
             ELSE IF IsErr(e3) THEN [quiet EXCEPT !.error = e3]
             ELSE [error |-> NoError, invoked |-> command,
                   actionArgs |-> ActionArgs(reg, command, st.args, st.options)]

(***************************************************************************)
(* Goke.parse                                                              *)
(***************************************************************************)
\* the number of words of a command name
WordCount(reg, c) == Len(NameParts(reg.commands[c].name))

RECURSIVE SortByWords(_, _)
\* [...this.commands].sort((a, b) => bLength - aLength): a stable sort, most words first
SortByWords(reg, cs) ==
  IF Len(cs) = 0 THEN <<>>
  ELSE LET m == CHOOSE i \in 1..Len(cs) :
                  /\ \A j \in 1..Len(cs) : WordCount(reg, cs[j]) <= WordCount(reg, cs[i])
                  /\ \A j \in 1..(i - 1) : WordCount(reg, cs[j]) < WordCount(reg, cs[i])
       IN <<cs[m]>> \o SortByWords(reg, SubSeq(cs, 1, m - 1) \o SubSeq(cs, m + 1, Len(cs)))

\* the commands tried in registration order
sortedCommands_Unsorted(reg) == [i \in 1..Len(reg.commands) |-> i]
sortedCommands(reg) == SortByWords(reg, [i \in 1..Len(reg.commands) |-> i])

\* setParsedInfo: args and options always, the matched command and its name only when truthy
setParsedInfo(st, parsed, command, name) ==
  [st EXCEPT !.args = parsed.args,
             !.options = parsed.options,
             !.matchedCommand = IF command # 0 THEN command ELSE @,
             !.matchedCommandName = IF Truthy(name) THEN name ELSE @]

unsetMatchedCommand(st) == [st EXCEPT !.matchedCommand = 0, !.matchedCommandName = Undef]

\* every command with a name, whatever its first word
matchingCommands_AnyName(reg, firstArg) ==
  SelectSeq([i \in 1..Len(reg.commands) |-> i], LAMBDA i : reg.commands[i].name # <<>>)

\* commands whose first word is firstArg: cmd.name !== '' && cmd.name.split(' ')[0] === firstArg
matchingCommands(reg, firstArg) ==
  SelectSeq([i \in 1..Len(reg.commands) |-> i],
            LAMBDA i : reg.commands[i].name # <<>> /\ Str(SplitOn(reg.commands[i].name, " ")[1]) = firstArg)

\* a command matched: setParsedInfo with the positionals after its name, and the event
CommandMatched(r, c, parsed, consumedArgs) ==
  [r EXCEPT !.st = setParsedInfo(@, [parsed EXCEPT !.args = SubSeq(@, consumedArgs + 1, Len(@))], c,
                                 Str(JoinWith([i \in 1..consumedArgs |-> JsString(parsed.args[i])], " "))),
            !.shouldParse = FALSE, !.command = c,
            !.events = Append(@, <<"command:", JoinWith([i \in 1..consumedArgs |-> JsString(parsed.args[i])], " ")>>)]

RECURSIVE SearchCommands(_, _, _, _)
\* one round of the loop over the sorted commands, parsed being this.mri(argv.slice(2), command)
TryCommand(reg, tokens, cs, r, parsed) ==
  IF ~parsed.ok THEN [r EXCEPT !.error = parsed.err]
  ELSE IF isMatched(reg.commands[cs[1]], parsed.args).matched
  THEN CommandMatched(r, cs[1], parsed, isMatched(reg.commands[cs[1]], parsed.args).consumedArgs)
  ELSE SearchCommands(reg, tokens, Tail(cs), r)

\* the loop over the sorted commands: each is tokenized with its own options, the first
\* that matches wins.  r carries st, shouldParse, run, events and the error thrown, if any
SearchCommands(reg, tokens, cs, r) ==
  IF Len(cs) = 0 THEN r
  ELSE TryCommand(reg, tokens, cs, r, Goke_mri(reg, tokens, cs[1]))

RECURSIVE SearchDefault(_, _, _, _)
\* one round of the loop over the default commands, parsed being this.mri(argv.slice(2), command)
TryDefault(reg, tokens, c, r, parsed) ==
  IF ~parsed.ok THEN [r EXCEPT !.error = parsed.err]
  ELSE IF Len(parsed.args) > 0 /\ Truthy(parsed.args[1]) /\ Len(matchingCommands(reg, parsed.args[1])) > 0
  THEN SearchDefault(reg, tokens, c + 1, r)
  ELSE SearchDefault(reg, tokens, c + 1,
                     [r EXCEPT !.st = setParsedInfo(@, parsed, c, Undef),
                               !.shouldParse = FALSE, !.command = c,
                               !.events = Append(@, <<"command:!", <<>>>>)])

\* the loop over the commands in registration order, for those whose name is empty
SearchDefault(reg, tokens, c, r) ==
  IF c > Len(reg.commands) THEN r
  ELSE IF reg.commands[c].name # <<>> THEN SearchDefault(reg, tokens, c + 1, r)
  ELSE TryDefault(reg, tokens, c, r, Goke_mri(reg, tokens, c))

\* if (shouldParse) { search the default command }
DefaultCommand(reg, tokens, r) ==
  IF IsErr(r.error) \/ ~r.shouldParse THEN r ELSE SearchDefault(reg, tokens, 1, r)

\* setParsedInfo(parsed), or the error this.mri threw
SetGlobal(r, parsed) ==
  IF ~parsed.ok THEN [r EXCEPT !.error = parsed.err]
  ELSE [r EXCEPT !.st = setParsedInfo(@, parsed, 0, Undef)]

\* the fallback: tokenize with the global options only
ParseGlobal(reg, tokens, r) ==
  IF IsErr(r.error) \/ ~r.shouldParse THEN r ELSE SetGlobal(r, Goke_mri(reg, tokens, 0))

\* this.args[0], undefined when there is none
FirstArg(st) == IF Len(st.args) > 0 THEN st.args[1] ELSE Undef

\* this.options.help && this.showHelpOnExit
HelpRequested(reg, st) == Truthy(GetProp(st.options, <<"h", "e", "l", "p">>)) /\ reg.showHelpOnExit
\* this.options.version && this.showVersionOnExit && this.matchedCommandName == null
VersionRequested(reg, st) ==
  /\ Truthy(GetProp(st.options, <<"v", "e", "r", "s", "i", "o", "n">>))
  /\ reg.showVersionOnExit
  /\ IsNullish(st.matchedCommandName)

\* what the help flag prints: the command list of a prefix, or the help of the matched
\* command (0: the global help)
HelpOutput(reg, st) ==
  IF st.matchedCommand = 0 /\ Truthy(FirstArg(st)) /\ Len(matchingCommands(reg, FirstArg(st))) > 0
  THEN [kind |-> "outputHelpForPrefix", prefix |-> FirstArg(st),
        commands |-> matchingCommands(reg, FirstArg(st)), fromHelpFlag |-> TRUE]
  ELSE [kind |-> "outputHelp", command |-> st.matchedCommand]

\* the help flag: print, run = false, unsetMatchedCommand()
ShowHelp(reg, r) ==
  IF ~IsErr(r.error) /\ HelpRequested(reg, r.st)
  THEN [r EXCEPT !.output = Append(@, HelpOutput(reg, r.st)), !.run = FALSE,
                 !.st = unsetMatchedCommand(@)]
  ELSE r

\* the version flag: print, run = false, unsetMatchedCommand()
ShowVersion(reg, r) ==
  IF ~IsErr(r.error) /\ VersionRequested(reg, r.st)
  THEN [r EXCEPT !.output = Append(@, [kind |-> "outputVersion"]), !.run = FALSE,
                 !.st = unsetMatchedCommand(@)]
  ELSE r

\* the outcome of runMatchedCommand() recorded in r
Ran(r, ran) == [r EXCEPT !.error = ran.error, !.invoked = ran.invoked, !.actionArgs = ran.actionArgs]

\* RunIfAsked running the matched command whatever run says
RunIfAsked_Always(reg, r) ==
  IF ~IsErr(r.error) THEN Ran(r, runMatchedCommand(reg, r.st)) ELSE r

\* if (run) this.runMatchedCommand()
RunIfAsked(reg, r) ==
  IF ~IsErr(r.error) /\ r.run THEN Ran(r, runMatchedCommand(reg, r.st)) ELSE r

\* the tail of parse, after the handler returned: 'command:*' and the help for a prefix
UnknownCommand(reg, r) ==
  IF IsErr(r.error) THEN r
  ELSE IF r.st.matchedCommand = 0 /\ Truthy(FirstArg(r.st)) /\ ~HelpRequested(reg, r.st)
  THEN [r EXCEPT !.events = Append(@, <<"command:*", <<>>>>),
                 !.output = IF reg.showHelpOnExit /\ Len(matchingCommands(reg, FirstArg(r.st))) > 0
                            THEN Append(@, [kind |-> "outputHelpForPrefix", prefix |-> FirstArg(r.st),
                                            commands |-> matchingCommands(reg, FirstArg(r.st)),
                                            fromHelpFlag |-> FALSE])
                            ELSE @,
                 !.returned = TRUE]
  ELSE [r EXCEPT !.returned = TRUE]

\* the record a parse call starts from
StartOfParse(st, run) ==
  [st |-> st, shouldParse |-> TRUE, command |-> 0, run |-> run, events |-> <<>>, output |-> <<>>,
   error |-> NoError, invoked |-> 0, actionArgs |-> <<>>, returned |-> FALSE]

\* Goke.parse(argv, {run}) on the instance state st; tokens is argv.slice(2).  The result
\* carries the new instance state and what the call did; error is the error it threw,
\* command the command the call resolved (0: none)
parse(reg, st, tokens, run) ==
  UnknownCommand(reg,
    RunIfAsked(reg,
      ShowVersion(reg,
        ShowHelp(reg,
          ParseGlobal(reg, tokens,
            DefaultCommand(reg, tokens,
              SearchCommands(reg, tokens, sortedCommands(reg), StartOfParse(st, run))))))))

(***************************************************************************)
(* The state machine: a Goke instance, its registration methods and parse  *)
(***************************************************************************)
\* argv[0] and argv[1], which parse skips
ArgvPrefix == <<<<"n", "o", "d", "e">>, <<"c", "l", "i">>>>

\* no parse call made yet
NoCall == [made |-> FALSE, count |-> 0]

\* new Goke(): no commands, a global command without options, nothing parsed
Init ==
  /\ registry = [commands |-> <<>>, globalOptions |-> <<>>,
                 globalConfig |-> [allowUnknownOptions |-> FALSE, ignoreOptionDefaultValue |-> FALSE],
                 showHelpOnExit |-> FALSE, showVersionOnExit |-> FALSE]
  /\ matchedCommand = 0
  /\ matchedCommandName = Undef
  /\ rawArgs = <<>>
  /\ args = <<>>
  /\ options = <<>>
  /\ call = NoCall
  /\ promises = <<>>
  /\ stderr = <<>>
  /\ coercion = [made |-> FALSE]
  /\ tokenized = [made |-> FALSE]
  /\ phases = <<"Idle">>

\* cli.command(rawName, ...) with the chained .option(), .alias(), .action() calls of decl
Goke_command(decl) ==
  /\ registry' = [registry EXCEPT !.commands =
                    Append(@, Command(decl.rawName,
                                      [i \in 1..Len(decl.options) |-> Option(decl.options[i].rawName, decl.options[i].schema)],
                                      decl.aliasNames, decl.config, decl.action))]
  /\ UNCHANGED <<matchedCommand, matchedCommandName, rawArgs, args, options, call, promises, stderr, coercion, tokenized, phases>>

\* cli.option(rawName, schema)
Goke_option(decl) ==
  /\ registry' = [registry EXCEPT !.globalOptions = Append(@, Option(decl.rawName, decl.schema))]
  /\ UNCHANGED <<matchedCommand, matchedCommandName, rawArgs, args, options, call, promises, stderr, coercion, tokenized, phases>>

\* cli.help()
Goke_help ==
  /\ registry' = [registry EXCEPT !.globalOptions = Append(@, Option(<<"-", "h", ",", " ", "-", "-", "h", "e", "l", "p">>, NoSchema)),
                                  !.showHelpOnExit = TRUE]
  /\ UNCHANGED <<matchedCommand, matchedCommandName, rawArgs, args, options, call, promises, stderr, coercion, tokenized, phases>>

\* cli.parse([node, cli, ...tokens], {run}) where the handler, if the call invokes it,
\* returns `returned`: undefined, or a promise that is still pending.  parse calls
\* this.runMatchedCommand() as a statement: what the handler returned is not kept, and
\* nothing is attached to it
ParseEffects(tokens, run, returned) ==
  LET st == [matchedCommand |-> matchedCommand, matchedCommandName |-> matchedCommandName,
             args |-> args, options |-> options]
  IN \E r \in {parse(registry, st, tokens, run)} :
     /\ rawArgs' = ArgvPrefix \o tokens
     /\ matchedCommand' = r.st.matchedCommand
     /\ matchedCommandName' = r.st.matchedCommandName
     /\ args' = r.st.args
     /\ options' = r.st.options
     /\ call' = [made |-> TRUE, count |-> call.count + 1, tokens |-> tokens, run |-> run, error |-> r.error,
                 command |-> r.command, invoked |-> r.invoked, actionArgs |-> r.actionArgs, events |-> r.events,
                 output |-> r.output, returned |-> r.returned,
                 matchedBefore |-> matchedCommand, registry |-> registry]
     /\ promises' = IF r.invoked # 0 /\ returned = "promise"
                    THEN Append(promises, [state |-> "pending", observers |-> 0])
                    ELSE promises
     /\ UNCHANGED <<registry, stderr, coercion, tokenized>>

\* the call with its phases left unrecorded
ParseCall(tokens, run, returned) == ParseEffects(tokens, run, returned) /\ UNCHANGED phases

\* cli.parse(argv, {run}) with handlers that return undefined
Goke_parse(tokens, run) == ParseCall(tokens, run, "undefined")

\* cli.parse(argv, {run}) with handlers declared async: they return a promise
Goke_parseAsync(tokens, run) == ParseCall(tokens, run, "promise")

\* a pending promise settles: the handler's body completes or throws
Settle(i, outcome) ==
  /\ i \in 1..Len(promises)
  /\ promises[i].state = "pending"
  /\ promises' = [promises EXCEPT ![i].state = outcome]
  /\ UNCHANGED <<registry, matchedCommand, matchedCommandName, rawArgs, args, options, call, stderr, coercion, tokenized, phases>>

\* coerceBySchema(value, schema, 'val') called directly, as the exported function it is
Coerce(value, schema) ==
  /\ coercion' = [made |-> TRUE, value |-> value, schema |-> schema,
                  result |-> coerceBySchema(value, schema, <<"v", "a", "l">>)]
  /\ UNCHANGED <<registry, matchedCommand, matchedCommandName, rawArgs, args, options, call, promises, stderr,
                 tokenized, phases>>

\* mri(argv, { alias, boolean }) called directly
Mri(argv, opts) ==
  /\ tokenized' = [made |-> TRUE, argv |-> argv, opts |-> opts, out |-> mri(argv, opts)]
  /\ UNCHANGED <<registry, matchedCommand, matchedCommandName, rawArgs, args, options, call, promises, stderr,
                 coercion, phases>>

\* the instance state of a newly constructed Goke
FreshState == [matchedCommand |-> 0, matchedCommandName |-> Undef, args |-> <<>>, options |-> <<>>]

\* a declaration of a command without options of its own
Declare(rawName, action) ==
  [rawName |-> rawName, options |-> <<>>, aliasNames |-> <<>>,
   config |-> [allowUnknownOptions |-> FALSE, ignoreOptionDefaultValue |-> FALSE], action |-> action]

\* all sequences over S of length at most n
SeqsUpTo(S, n) == UNION {[1..k -> S] : k \in 0..n}

(***************************************************************************)
(* Command resolution: commands named by words, argv made of words         *)
(***************************************************************************)
MaxCommands == 2
MaxArgs == 2
MaxResolveCalls == 2

\* the default command, "m" and "m l", each with a handler
ResolveCommands ==
  {Declare(<<>>, TRUE), Declare(<<"m">>, TRUE), Declare(<<"m", " ", "l">>, TRUE)}
ResolveWords == {<<"m">>, <<"l">>, <<"x">>}

NextResolve ==
  \/ \E decl \in ResolveCommands : Len(registry.commands) < MaxCommands /\ Goke_command(decl)
  \/ \E tokens \in SeqsUpTo(ResolveWords, MaxArgs), run \in BOOLEAN :
       call.count < MaxResolveCalls /\ Goke_parse(tokens, run)

SpecResolve == Init /\ [][NextResolve]_vars

\* the latest call run again on a newly constructed instance with the same registrations
FreshCall == parse(call.registry, FreshState, call.tokens, call.run)

\* C1: after any sequence of parse calls, what the latest call does depends only on its
\* argv and the registry: it invokes the handler, throws the error and leaves the matched
\* command, args and options that the same call leaves on a fresh instance; in
\* particular, when its argv matches no named command and no default command applies it
\* invokes no handler and reports no matched command, whatever an earlier call matched
C1_LatestCallOnly ==
  call.made =>
    /\ call.invoked = FreshCall.invoked
    /\ call.error = FreshCall.error
    /\ matchedCommand = FreshCall.st.matchedCommand
    /\ matchedCommandName = FreshCall.st.matchedCommandName
    /\ (FreshCall.st.matchedCommand = 0 => call.invoked = 0 /\ matchedCommand = 0)

\* p is a prefix of q
IsPrefix(p, q) == Len(p) <= Len(q) /\ SubSeq(q, 1, Len(p)) = p
\* the words of the name of command c of the registry the latest call ran with
CallNameParts(c) == NameParts(call.registry.commands[c].name)
CallCommands == 1..Len(call.registry.commands)

\* the latest call's argv begins with the full name of command long, and command short
\* is named by a proper prefix of that name
PrefixPair(short, long) ==
  /\ Len(CallNameParts(short)) > 0
  /\ Len(CallNameParts(short)) < Len(CallNameParts(long))
  /\ IsPrefix(CallNameParts(short), CallNameParts(long))
  /\ IsPrefix(CallNameParts(long), call.tokens)

\* C2: whatever the order in which two commands were registered, when the name of one
\* is a proper prefix of the name of the other and argv begins with the longer name,
\* the call resolves to the command with the longer name and never to the shorter one
C2_GreedyMatching ==
  call.made =>
    \A short \in CallCommands, long \in CallCommands :
      PrefixPair(short, long) =>
        /\ matchedCommand # 0
        /\ matchedCommand # short
        /\ IsPrefix(CallNameParts(long), CallNameParts(matchedCommand))
        /\ (call.run => call.invoked = matchedCommand)

\* the shorter name was registered first and argv is exactly the longer name
C2_Witness ==
  /\ call.made
  /\ \E short \in CallCommands, long \in CallCommands :
       short < long /\ PrefixPair(short, long) /\ matchedCommand = long /\ call.invoked = long

\* no named command matches the positionals of the latest call
NoNamedMatch ==
  \A c \in CallCommands :
    ~isMatched(call.registry.commands[c], [i \in 1..Len(call.tokens) |-> Str(call.tokens[i])]).matched
\* a default command is registered, and the first positional is absent or is not the
\* first word of a command with a name
DefaultApplies ==
  /\ \E c \in CallCommands : call.registry.commands[c].name = <<>>
  /\ (Len(call.tokens) = 0 \/ Len(matchingCommands(call.registry, Str(call.tokens[1]))) = 0)

MaxOptions == 1
MaxTokens == 3
MaxCalls == 1

NumberSchema == [type |-> "number"]
NumberArraySchema == [type |-> "array", items |-> [type |-> "number"]]
NumberDefaultSchema == [type |-> "number", default |-> Num(8, 0)]

\* the schemas an option named port is declared with: none, z.number(),
\* z.array(z.number()), z.number().default(8)
PortSchemas == {NoSchema, <<NumberSchema>>, <<NumberArraySchema>>, <<NumberDefaultSchema>>}

\* "-p, --port <port>" and "-p, --port [port]" with each schema, and "-v, --verbose"
OptionDecls ==
  {[rawName |-> <<"-", "p", ",", " ", "-", "-", "p", "o", "r", "t", " ">> \o brackets, schema |-> schema] :
     brackets \in {<<"<", "p", "o", "r", "t", ">">>, <<"[", "p", "o", "r", "t", "]">>},
     schema \in PortSchemas}
  \cup {[rawName |-> <<"-", "v", ",", " ", "-", "-", "v", "e", "r", "b", "o", "s", "e">>, schema |-> NoSchema]}

\* the command "s" with a handler and the options of decls
CommandDecl(decls) ==
  [rawName |-> <<"s">>, options |-> decls, aliasNames |-> <<>>,
   config |-> [allowUnknownOptions |-> FALSE, ignoreOptionDefaultValue |-> FALSE], action |-> TRUE]

\* no option of the instance carries the name the declaration gives
Undeclared(decl) ==
  /\ ~hasOption(registry.globalOptions, Option(decl.rawName, decl.schema).name)
  /\ \A c \in 1..Len(registry.commands) :
       ~hasOption(registry.commands[c].options, Option(decl.rawName, decl.schema).name)

OptionTokens ==
  {<<"s">>, <<"-", "-", "p", "o", "r", "t">>, <<"-", "p">>, <<"-", "v">>, <<"-", "-", "x">>,
   <<"7">>, <<"[", "1", ",", "2", "]">>}

NextOptions ==
  \/ \E decl \in OptionDecls :
       Len(registry.globalOptions) < MaxOptions /\ Undeclared(decl) /\ Goke_option(decl)
  \/ \E decls \in SeqsUpTo(OptionDecls, MaxOptions) :
       /\ registry.commands = <<>>
       /\ \A i \in 1..Len(decls) : Undeclared(decls[i])
       /\ \A i, j \in 1..Len(decls) : i # j => Option(decls[i].rawName, decls[i].schema).name # Option(decls[j].rawName, decls[j].schema).name
       /\ Goke_command(CommandDecl(decls))
  \/ \E tokens \in SeqsUpTo(OptionTokens, MaxTokens), run \in BOOLEAN :
       call.count < MaxCalls /\ Goke_parse(tokens, run)

SpecOptions == Init /\ [][NextOptions]_vars

\* the options in force in the latest call: the global ones, then those of the command
\* the call resolved
CallOptions == CliOptions(call.registry, call.command)

\* the spelling of a flag: one dash before a one-character name, two before a longer one
FlagOf(name) == (IF Len(name) > 1 THEN <<"-", "-">> ELSE <<"-">>) \o name

\* the position of the first "=" of a token, one past its end when it has none
EqualsAt(tok) == IF IndexOfChar(tok, "=") = 0 THEN Len(tok) + 1 ELSE IndexOfChar(tok, "=")
\* the flag a token spells, and the value written after its "="
FlagText(tok) == SubSeq(tok, 1, EqualsAt(tok) - 1)
InlineText(tok) == SubSeq(tok, EqualsAt(tok) + 1, Len(tok))

\* token i of the latest call is a flag of option o, ahead of any "--"
IsFlagOf(o, i) ==
  /\ \E n \in 1..Len(o.names) : FlagText(call.tokens[i]) = FlagOf(o.names[n])
  /\ \A j \in 1..i : call.tokens[j] # <<"-", "-">>

\* token i carries no value of its own, and it is the last token or the token after it
\* is another flag
NoValueAfter(i) ==
  /\ InlineText(call.tokens[i]) = <<>>
  /\ i = Len(call.tokens) \/ (Len(call.tokens[i + 1]) > 0 /\ call.tokens[i + 1][1] = "-")

\* what the flag at token i is given: the text after "=", else the next token, else
\* the sentinel true
SuppliedValue(i) ==
  IF InlineText(call.tokens[i]) # <<>> THEN Str(InlineText(call.tokens[i]))
  ELSE IF NoValueAfter(i) THEN Bool(TRUE)
  ELSE Str(call.tokens[i + 1])

\* the positions of the flags of option o in the latest call, in order
Occurrences(o) == SelectSeq([i \in 1..Len(call.tokens) |-> i], LAMBDA i : IsFlagOf(o, i))

\* every flag of option o in the latest call is spelled the same way
SameSpelling(o) ==
  \A i \in 1..Len(Occurrences(o)) :
    FlagText(call.tokens[Occurrences(o)[i]]) = FlagText(call.tokens[Occurrences(o)[1]])

\* the value the latest call left for option o, at the dot path of its name
Resolved(o) == PathValue(Obj(options), SplitOn(o.name, "."))

\* every flag of the latest call is a flag of an option in force
AllFlagsDeclared ==
  \A i \in 1..Len(call.tokens) :
    (Len(call.tokens[i]) > 0 /\ call.tokens[i][1] = "-") =>
      \E k \in 1..Len(CallOptions) : IsFlagOf(CallOptions[k], i)

\* the latest call resolved the command it dispatches and was asked to run its handler
Dispatched ==
  /\ call.made /\ call.run
  /\ call.command # 0 /\ matchedCommand = call.command
  /\ call.registry.commands[call.command].commandAction

\* the latest call threw an error of this kind
Failed(kind) == IsErr(call.error) /\ call.error.kind = kind

\* C4: for every option declared with Required arity, with or without a schema, a call
\* that dispatches a command and whose argv has the option's flag with no value (the
\* flag is the last token or is followed by another flag) fails with the error
\* "value is missing" and invokes no handler
C4_ValueIsMissing ==
  Dispatched /\ AllFlagsDeclared =>
    \A k \in 1..Len(CallOptions) :
      (CallOptions[k].required /\ \E i \in 1..Len(call.tokens) : IsFlagOf(CallOptions[k], i) /\ NoValueAfter(i)) =>
        Failed("value is missing") /\ call.invoked = 0

\* a required option without a schema is given twice with no value and the handler runs
C4_HandlerRan ==
  /\ Dispatched /\ AllFlagsDeclared
  /\ call.invoked # 0
  /\ \E k \in 1..Len(CallOptions) :
       /\ CallOptions[k].required /\ CallOptions[k].schema = NoSchema
       /\ \A i \in 1..Len(call.tokens) : IsFlagOf(CallOptions[k], i) => NoValueAfter(i)
       /\ Len(Occurrences(CallOptions[k])) = 2

\* option o is declared with Optional arity, "[value]"
OptionalArity(o) == ~o.required /\ ~o.isBoolean

\* the one flag of option o in the latest call has no value
GivenOnceWithoutValue(o) ==
  Len(Occurrences(o)) = 1 /\ NoValueAfter(Occurrences(o)[1])

\* C6: an option declared with Optional arity and a schema, given with no value, resolves
\* to undefined, also when the schema carries a default; the same option declared
\* without a schema resolves to boolean true
C6_SentinelPreservation ==
  call.made =>
    \A k \in 1..Len(CallOptions) :
      (OptionalArity(CallOptions[k]) /\ GivenOnceWithoutValue(CallOptions[k])) =>
        Resolved(CallOptions[k]) = (IF CallOptions[k].schema = NoSchema THEN Bool(TRUE) ELSE Undef)

\* declared with a schema that carries a default and given with no value, the option
\* resolves to undefined, not to the default
C6_Witness ==
  /\ call.made
  /\ \E k \in 1..Len(CallOptions) :
       /\ OptionalArity(CallOptions[k]) /\ GivenOnceWithoutValue(CallOptions[k])
       /\ CallOptions[k].default # Undef
       /\ HasKey(options, CallOptions[k].name)
       /\ Resolved(CallOptions[k]) = Undef

\* the flag names of the options the latest call left, the "--" bucket aside, that
\* neither the resolved command nor the global command declares
UnknownNames ==
  {OwnKeys(options)[i] : i \in {j \in 1..Len(OwnKeys(options)) :
     /\ OwnKeys(options)[j] # <<"-", "-">>
     /\ ~hasOption(call.registry.commands[call.command].options, OwnKeys(options)[j])
     /\ ~hasOption(call.registry.globalOptions, OwnKeys(options)[j])}}

\* C10: when a command that does not allow unknown options is dispatched and the parsed
\* options hold a flag name, other than the "--" bucket, that neither the command nor
\* the global command declares, parse fails with an "Unknown option" error naming an
\* undeclared flag, written with one dash when the name has one character and two
\* dashes otherwise, and the handler is not invoked
C10_UnknownOption ==
  (/\ Dispatched
   /\ ~call.registry.commands[call.command].config.allowUnknownOptions
   /\ UnknownNames # {}) =>
     /\ Failed("Unknown option")
     /\ call.invoked = 0
     /\ \E name \in UnknownNames : call.error.v = <<FlagOf(name)>>
     /\ (Cardinality(UnknownNames) = 1 => \A name \in UnknownNames : call.error.v = <<FlagOf(name)>>)

\* the undeclared flag --x, whose name has one character, is reported as -x
C10_Witness ==
  /\ Dispatched
  /\ \E i \in 1..Len(call.tokens) : call.tokens[i] = <<"-", "-", "x">>
  /\ UnknownNames = {<<"x">>}
  /\ Failed("Unknown option")
  /\ call.error.v = <<<<"-", "x">>>>
  /\ call.invoked = 0

(***************************************************************************)
(* Option values: global options named port with and without a schema,     *)
(* argv of flags with values written inline or as the next token           *)
(***************************************************************************)
StringSchema == [type |-> "string"]
IntegerSchema == [type |-> "integer"]
StringArraySchema == [type |-> "array", items |-> [type |-> "string"]]

ValueSchemas ==
  {NoSchema, <<StringSchema>>, <<NumberSchema>>, <<IntegerSchema>>,
   <<StringArraySchema>>, <<NumberArraySchema>>}

\* "-p, --port <port>" and "-p, --port [port]" with each schema
ValueDecls ==
  {[rawName |-> <<"-", "p", ",", " ", "-", "-", "p", "o", "r", "t", " ">> \o brackets, schema |-> schema] :
     brackets \in {<<"<", "p", "o", "r", "t", ">">>, <<"[", "p", "o", "r", "t", "]">>},
     schema \in ValueSchemas}

ValueTokens ==
  {<<"-", "-", "p", "o", "r", "t">>, <<"-", "p">>,
   <<"-", "-", "p", "o", "r", "t", "=", "7">>, <<"-", "-", "p", "o", "r", "t", "=", "0", "0", "7">>,
   <<"7">>, <<"0", "0", "7">>, <<"+", "1">>, <<"0", "x", "1", "F">>, <<"1", "e", "3">>,
   <<"[", "1", ",", "2", "]">>}

NextValues ==
  \/ \E decl \in ValueDecls :
       Len(registry.globalOptions) < MaxOptions /\ Undeclared(decl) /\ Goke_option(decl)
  \/ \E tokens \in SeqsUpTo(ValueTokens, MaxTokens), run \in BOOLEAN :
       call.count < MaxCalls /\ Goke_parse(tokens, run)

SpecValues == Init /\ [][NextValues]_vars

\* option o has a schema, and it is an array schema
HasArraySchema(o) == o.schema # NoSchema /\ schemaIsArray(o.schema[1])
HasOtherSchema(o) == o.schema # NoSchema /\ ~schemaIsArray(o.schema[1])

\* what the item schema of option o makes of the value supplied at token i
ItemAt(o, i) ==
  IF Has(o.schema[1], "items") THEN coerceBySchema(SuppliedValue(i), o.schema[1].items, o.name)
  ELSE SuppliedValue(i)

\* the latest call left for option o an array with one element per flag, each the value
\* supplied with that flag, in the order of the flags
OnePerFlag(o) ==
  /\ ~IsErr(call.error)
  /\ Resolved(o).t = "arr"
  /\ Len(Resolved(o).v) = Len(Occurrences(o))
  /\ \A n \in 1..Len(Occurrences(o)) : Resolved(o).v[n] = ItemAt(o, Occurrences(o)[n])

\* every flag of option o in the latest call is given a value, which the item schema accepts
ValuesAccepted(o) ==
  \A n \in 1..Len(Occurrences(o)) :
    ~NoValueAfter(Occurrences(o)[n]) /\ ~IsErr(ItemAt(o, Occurrences(o)[n]))

\* the value supplied at token i is the text of a JSON array
JsonArrayText(i) ==
  ParsedText(SuppliedValue(i)).ok /\ ParsedText(SuppliedValue(i)).val.t = "arr"

\* C5: for every option with a schema that is not an array schema, a call whose argv
\* has the same flag twice fails with "does not accept multiple values"; for every
\* option with an array schema, a call whose argv has the flag n times, each time with a
\* value, leaves an array of exactly n elements, in the order the flags were seen
C5_RepeatedFlags ==
  call.made =>
    \A k \in 1..Len(CallOptions) :
      SameSpelling(CallOptions[k]) =>
        /\ (HasOtherSchema(CallOptions[k]) /\ Len(Occurrences(CallOptions[k])) >= 2)
              => Failed("does not accept multiple values")
        /\ (HasArraySchema(CallOptions[k]) /\ Len(Occurrences(CallOptions[k])) >= 1
              /\ ValuesAccepted(CallOptions[k]))
              => OnePerFlag(CallOptions[k])

\* C5 as amended: the array of one element per flag is left when the flag is given at
\* least twice, or once with a value that is not the text of a JSON array
C5_RepeatedFlagsAmended ==
  call.made =>
    \A k \in 1..Len(CallOptions) :
      SameSpelling(CallOptions[k]) =>
        /\ (HasOtherSchema(CallOptions[k]) /\ Len(Occurrences(CallOptions[k])) >= 2)
              => Failed("does not accept multiple values")
        /\ (/\ HasArraySchema(CallOptions[k])
            /\ Len(Occurrences(CallOptions[k])) >= 1
            /\ ValuesAccepted(CallOptions[k])
            /\ (Len(Occurrences(CallOptions[k])) = 1 => ~JsonArrayText(Occurrences(CallOptions[k])[1])))
              => OnePerFlag(CallOptions[k])

\* an option with an array schema is given the same flag twice with different values
\* and the call leaves the two values in the order given
C5_Witness ==
  /\ call.made
  /\ \E k \in 1..Len(CallOptions) :
       /\ HasArraySchema(CallOptions[k]) /\ SameSpelling(CallOptions[k])
       /\ Len(Occurrences(CallOptions[k])) = 2
       /\ ValuesAccepted(CallOptions[k])
       /\ OnePerFlag(CallOptions[k])
       /\ Resolved(CallOptions[k]).v[1] # Resolved(CallOptions[k]).v[2]

(***************************************************************************)
(* Defaults: options declared with a default, one at a dot-nested path,    *)
(* argv of other flags                                                     *)
(***************************************************************************)
NestedDefaultSchema == [type |-> "number", default |-> Num(5, 0)]

\* "--c.p <v>" with z.number().default(5), "--port [port]" with z.number().default(8),
\* "--c [c]" and "--verbose" without a schema
DefaultDecls ==
  {[rawName |-> <<"-", "-", "c", ".", "p", " ", "<", "v", ">">>, schema |-> <<NestedDefaultSchema>>],
   [rawName |-> <<"-", "-", "p", "o", "r", "t", " ", "[", "p", "o", "r", "t", "]">>, schema |-> <<NumberDefaultSchema>>],
   [rawName |-> <<"-", "-", "c", " ", "[", "c", "]">>, schema |-> NoSchema],
   [rawName |-> <<"-", "-", "v", "e", "r", "b", "o", "s", "e">>, schema |-> NoSchema]}

DefaultTokens ==
  {<<"s">>, <<"-", "-", "c">>, <<"-", "-", "c", ".", "q">>, <<"-", "-", "c", ".", "p">>,
   <<"-", "-", "p", "o", "r", "t">>, <<"-", "-", "v", "e", "r", "b", "o", "s", "e">>, <<"7">>}

\* no option of the instance is declared with this raw name
NotYetDeclared(decl) ==
  /\ \A i \in 1..Len(registry.globalOptions) : registry.globalOptions[i].rawName # decl.rawName
  /\ \A c \in 1..Len(registry.commands) :
       \A i \in 1..Len(registry.commands[c].options) : registry.commands[c].options[i].rawName # decl.rawName

NextDefaults ==
  \/ \E decl \in DefaultDecls :
       Len(registry.globalOptions) < MaxOptions /\ NotYetDeclared(decl) /\ Goke_option(decl)
  \/ \E decls \in SeqsUpTo(DefaultDecls, MaxOptions) :
       /\ registry.commands = <<>>
       /\ \A i \in 1..Len(decls) : NotYetDeclared(decls[i])
       /\ \A i, j \in 1..Len(decls) : i # j => decls[i] # decls[j]
       /\ Goke_command(CommandDecl(decls))
  \/ \E tokens \in SeqsUpTo(DefaultTokens, MaxTokens), run \in BOOLEAN :
       call.count < MaxCalls /\ Goke_parse(tokens, run)

SpecDefaults == Init /\ [][NextDefaults]_vars

\* C7: for every option declared with a default, a call whose argv has no flag of that
\* option leaves the default as the option's value, at the dot path of its name,
\* whatever other flags argv has
C7_DefaultsKept ==
  (call.made /\ ~IsErr(call.error)) =>
    \A k \in 1..Len(CallOptions) :
      (CallOptions[k].default # Undef /\ Len(Occurrences(CallOptions[k])) = 0) =>
        Resolved(CallOptions[k]) = CallOptions[k].default

\* option o is declared without a schema or with the string schema
StringValued(o) == o.schema = NoSchema \/ o.schema = <<StringSchema>>
\* option o is declared with the number or the integer schema
NumberValued(o) == o.schema = <<NumberSchema>> \/ o.schema = <<IntegerSchema>>

\* the one flag of option o in the latest call is given a value
GivenOnceWithValue(o) ==
  Len(Occurrences(o)) = 1 /\ ~NoValueAfter(Occurrences(o)[1])

\* C8: for every option declared without a schema or with a string schema, the value
\* token supplied is returned as the identical string, with its leading zeros, '+'
\* prefix, hex or exponent form; the value of an option is a number only when the option
\* is declared with a number or integer schema
C8_NoImplicitNumbers ==
  (call.made /\ ~IsErr(call.error)) =>
    \A k \in 1..Len(CallOptions) :
      /\ (StringValued(CallOptions[k]) /\ GivenOnceWithValue(CallOptions[k]))
           => Resolved(CallOptions[k]) = SuppliedValue(Occurrences(CallOptions[k])[1])
      /\ IsNumber(Resolved(CallOptions[k])) => NumberValued(CallOptions[k])

\* an option with the string schema is given a value with leading zeros and keeps it
C8_Witness ==
  /\ call.made /\ ~IsErr(call.error)
  /\ \E k \in 1..Len(CallOptions) :
       /\ CallOptions[k].schema = <<StringSchema>>
       /\ GivenOnceWithValue(CallOptions[k])
       /\ Resolved(CallOptions[k]) = Str(<<"0", "0", "7">>)

(***************************************************************************)
(* Round trip: a value of the schema's type is formatted as a token,       *)
(* passed to the option and coerced back                                   *)
(***************************************************************************)
BooleanSchema == [type |-> "boolean"]

\* "--port <port>" and "--port [port]" with the number, integer, string and boolean schema
RoundTripDecls ==
  {[rawName |-> <<"-", "-", "p", "o", "r", "t", " ">> \o brackets, schema |-> <<schema>>] :
     brackets \in {<<"<", "p", "o", "r", "t", ">">>, <<"[", "p", "o", "r", "t", "]">>},
     schema \in {NumberSchema, IntegerSchema, StringSchema, BooleanSchema}}

\* 0, 7, -5, 1.5, -1.5, 1000, -0; "", "a", "-x", "007"; true, false
RoundTripValues ==
  {Num(0, 0), Num(7, 0), Num(-5, 0), Num(15, -1), Num(-15, -1), Num(1, 3), NegZero,
   Str(<<>>), Str(<<"a">>), Str(<<"-", "x">>), Str(<<"0", "0", "7">>),
   Bool(TRUE), Bool(FALSE)}

\* argv giving the option the value v formatted as a token: written after "=" when
\* inline, as the next token otherwise
PassedTo(name, v, inline) ==
  IF inline THEN <<FlagOf(name) \o <<"=">> \o JsString(v)>>
  ELSE <<FlagOf(name), JsString(v)>>

NextRoundTrip ==
  \/ \E decl \in RoundTripDecls :
       Len(registry.globalOptions) < MaxOptions /\ Undeclared(decl) /\ Goke_option(decl)
  \/ \E v \in RoundTripValues, inline \in BOOLEAN, run \in BOOLEAN :
       call.count < MaxCalls /\ Goke_parse(PassedTo(<<"p", "o", "r", "t">>, v, inline), run)

SpecRoundTrip == Init /\ [][NextRoundTrip]_vars

\* v is in the domain of the type of the schema
InDomain(v, schema) ==
  CASE schema.type = "number" -> v.t \in {"num", "negzero"}
    [] schema.type = "integer" -> v.t \in {"num", "negzero"} /\ ~HasFraction(v)
    [] schema.type = "string" -> v.t = "str"
    [] schema.type = "boolean" -> v.t = "bool"
    [] OTHER -> FALSE

\* the latest call left the value v for option o, -0 counting as 0
CoercedBackTo(o, v) ==
  /\ ~IsErr(call.error)
  /\ Resolved(o) = (IF v = NegZero THEN Num(0, 0) ELSE v)

Passable(v, inline) ==
  IF inline THEN JsString(v) # <<>>
  ELSE JsString(v) = <<>> \/ JsString(v)[1] # "-"

SettleSome == \E i \in 1..Len(promises), outcome \in {"fulfilled", "rejected"} : Settle(i, outcome)

NextAsync ==
  \/ \E decl \in ResolveCommands : Len(registry.commands) < MaxCommands /\ Goke_command(decl)
  \/ \E tokens \in SeqsUpTo(ResolveWords, MaxArgs), run \in BOOLEAN :
       call.count < MaxResolveCalls /\ Goke_parseAsync(tokens, run)
  \/ SettleSome

\* parse is called when the host calls it; the event loop runs every job it has, so a
\* promise that can settle eventually does
SpecAsync == Init /\ [][NextAsync]_vars /\ WF_vars(SettleSome)

\* a handler's promise has rejected
SomeRejected == \E i \in 1..Len(promises) : promises[i].state = "rejected"

\* C11: when a dispatched handler returns a promise that later rejects, the rejection is
\* eventually reported on the error channel: an error message is written to stderr
C11_RejectionReported == SomeRejected ~> (stderr # <<>>)

(***************************************************************************)
(* Positional arguments: commands declared with <required>, [optional] and  *)
(* variadic brackets, each with the options --port <port> and -v, --verbose *)
(***************************************************************************)
\* "s <a>", "s t <a> [b]", "s <a> [...r]", "s [a] <...r>" and the default command "<a>"
ArgsNames ==
  {<<"s", " ", "<", "a", ">">>,
   <<"s", " ", "t", " ", "<", "a", ">", " ", "[", "b", "]">>,
   <<"s", " ", "<", "a", ">", " ", "[", ".", ".", ".", "r", "]">>,
   <<"s", " ", "[", "a", "]", " ", "<", ".", ".", ".", "r", ">">>,
   <<"<", "a", ">">>}

ArgsOptions ==
  <<[rawName |-> <<"-", "-", "p", "o", "r", "t", " ", "<", "p", "o", "r", "t", ">">>, schema |-> NoSchema],
    [rawName |-> <<"-", "v", ",", " ", "-", "-", "v", "e", "r", "b", "o", "s", "e">>, schema |-> NoSchema]>>

\* cli.command(rawName).option('--port <port>').option('-v, --verbose').action(fn)
ArgsDecl(rawName) ==
  [rawName |-> rawName, options |-> ArgsOptions, aliasNames |-> <<>>,
   config |-> [allowUnknownOptions |-> FALSE, ignoreOptionDefaultValue |-> FALSE], action |-> TRUE]

ArgsTokens ==
  {<<"s">>, <<"t">>, <<"x">>, <<"-", "-", "p", "o", "r", "t">>, <<"-", "v">>, <<"-", "-", "x">>, <<"-", "-">>}

NextArgs ==
  \/ \E rawName \in ArgsNames : Len(registry.commands) < MaxCommands /\ Goke_command(ArgsDecl(rawName))
  \/ \E tokens \in SeqsUpTo(ArgsTokens, MaxTokens), run \in BOOLEAN :
       call.count < MaxCalls /\ Goke_parse(tokens, run)

SpecArgs == Init /\ [][NextArgs]_vars

\* the error the dispatcher's validation raises on what the latest call left: unknown
\* option, missing required option value, missing required positional, in this order
ValidationError ==
  IF IsErr(checkUnknownOptions(call.registry, call.command, options))
  THEN checkUnknownOptions(call.registry, call.command, options)
  ELSE IF IsErr(checkOptionValue(call.registry, call.command, options))
  THEN checkOptionValue(call.registry, call.command, options)
  ELSE checkRequiredArgs(call.registry, call.command, args)

\* the latest call resolved a command with a handler, with run = false
ResolvedOnly ==
  /\ call.made /\ ~call.run
  /\ call.command # 0 /\ matchedCommand = call.command
  /\ call.registry.commands[call.command].commandAction

\* C12: parse called with run = false performs command resolution and the dispatcher's
\* validation, so input with an unknown option, a missing required option value or a
\* missing required positional is still rejected, but it never invokes any handler
C12_RunFalseValidates ==
  /\ (call.made /\ ~call.run) => call.invoked = 0
  /\ (ResolvedOnly /\ IsErr(ValidationError)) => call.error = ValidationError

\* the errors of the dispatcher's validation
ValidationKinds == {"Unknown option", "value is missing", "missing required args for command"}

\* C12 (amended): parse called with run = false resolves the command as the same call
\* with run = true does, but performs none of the dispatcher's validation and never
\* invokes any handler: it throws no unknown-option, missing-value or
\* missing-positional error
C12_RunFalseResolves ==
  (call.made /\ ~call.run) =>
    /\ call.invoked = 0
    /\ \A kind \in ValidationKinds : ~Failed(kind)
    /\ call.command = parse(call.registry, FreshState, call.tokens, TRUE).command

\* with run = false a command is resolved, its input has an unknown option, and the call
\* returns without an error and without invoking the handler
C12_Witness ==
  /\ ResolvedOnly
  /\ ValidationError.t = "error" /\ ValidationError.kind = "Unknown option"
  /\ call.error = NoError /\ call.returned
  /\ call.invoked = 0

\* the position of the first token "--" of the latest call, 0 when it has none
FirstDoubleDash == DoubleDashIndex(call.tokens)

\* the tokens of the latest call after its first "--", as strings
AfterDoubleDash ==
  [i \in 1..(Len(call.tokens) - FirstDoubleDash) |-> Str(call.tokens[FirstDoubleDash + i])]

\* the same call made with only the tokens ahead of the first "--"
WithoutTail == parse(call.registry, FreshState, SubSeq(call.tokens, 1, FirstDoubleDash - 1), call.run)

\* C13: when argv has a token "--", every token after the first one, further "--" and
\* tokens that look like flags included, is in options["--"] verbatim and in order, and
\* the positional arguments and every flag value are those of the argv cut before that
\* "--"; without a "--" token the bucket is the empty list
C13_DoubleDash ==
  call.made =>
    IF FirstDoubleDash = 0 THEN GetProp(options, <<"-", "-">>) = Arr(<<>>)
    ELSE /\ GetProp(options, <<"-", "-">>) = Arr(AfterDoubleDash)
         /\ args = WithoutTail.st.args
         /\ options = SetProp(WithoutTail.st.options, <<"-", "-">>, Arr(AfterDoubleDash))

\* a command that declares -v is resolved; after the first "--" come a second "--" and
\* the token -v, and no flag is set
C13_Witness ==
  /\ call.made /\ call.error = NoError /\ call.command # 0
  /\ FirstDoubleDash # 0 /\ Len(AfterDoubleDash) = 2
  /\ \E i, j \in 1..2 : AfterDoubleDash[i] = Str(<<"-", "-">>) /\ AfterDoubleDash[j] = Str(<<"-", "v">>)
  /\ OwnKeys(options) = <<<<"-", "-">>>>
  /\ args = <<>>

\* token i of the latest call is a positional argument: it is ahead of any "--", does not
\* begin with a dash, and is not the value of a flag that takes one (-v takes none)
IsPositional(i) ==
  /\ \A j \in 1..i : call.tokens[j] # <<"-", "-">>
  /\ call.tokens[i][1] # "-"
  /\ i > 1 => call.tokens[i - 1] \notin {<<"-", "-", "p", "o", "r", "t">>, <<"-", "-", "x">>}

\* the positional tokens of the latest call after the words of the command name
PositionalTokens ==
  LET all == SelectSeq([i \in 1..Len(call.tokens) |-> i], IsPositional)
      words == Len(NameParts(call.registry.commands[call.command].name))
  IN [n \in 1..(Len(all) - words) |-> call.tokens[all[words + n]]]

\* the number of <...> brackets of the raw name of the command the latest call resolved
RequiredSlots ==
  Cardinality({i \in 1..Len(call.registry.commands[call.command].rawName) :
                 call.registry.commands[call.command].rawName[i] = "<"})

\* the latest call passed the checks that come before the one on positionals
OptionsValid == ~Failed("Unknown option") /\ ~Failed("value is missing")

\* C16: when a command is dispatched with fewer positional tokens, after the words of
\* the command name, than it has required positional slots, parse fails with the
\* "missing required args" error naming the command and the handler is not invoked;
\* with at least that many tokens this check does not fail
C16_RequiredArgs ==
  (Dispatched /\ OptionsValid) =>
    IF Len(PositionalTokens) < RequiredSlots
    THEN /\ Failed("missing required args for command")
         /\ call.error.v = <<call.registry.commands[call.command].rawName>>
         /\ call.invoked = 0
    ELSE ~Failed("missing required args for command") /\ call.invoked = call.command

\* "s t <a> [b]" is dispatched with its one required positional and runs; the default
\* command "<a>" would need one more
C16_Witness ==
  /\ Dispatched /\ OptionsValid
  /\ Len(NameParts(call.registry.commands[call.command].name)) = 2
  /\ Len(call.registry.commands[call.command].args) = 2
  /\ RequiredSlots = 1 /\ Len(PositionalTokens) = 1
  /\ call.invoked = call.command

\* the slots of a raw command name in the order they are declared
DeclaredSlots(rawName) ==
  LET opens == SelectSeq([i \in 1..Len(rawName) |-> i], LAMBDA i : rawName[i] \in {"<", "["})
  IN [n \in 1..Len(opens) |->
        [variadic |-> StartsWith(SubSeq(rawName, opens[n] + 1, Len(rawName)), <<".", ".", ".">>)]]

\* C17: on successful dispatch the handler receives one argument per declared slot and
\* then the options: slot i, in declaration order, receives positional token i after the
\* words of the command name, undefined when there is none; a variadic slot receives
\* the list of the positional tokens from its index on; the options object comes last
C17_HandlerArguments ==
  (Dispatched /\ call.invoked # 0) =>
    LET slots == DeclaredSlots(call.registry.commands[call.command].rawName)
    IN /\ Len(call.actionArgs) = Len(slots) + 1
       /\ \A i \in 1..Len(slots) :
            call.actionArgs[i] =
              IF slots[i].variadic
              THEN Arr([n \in 1..(Len(PositionalTokens) - i + 1) |-> Str(PositionalTokens[i + n - 1])])
              ELSE IF i <= Len(PositionalTokens) THEN Str(PositionalTokens[i]) ELSE Undef
       /\ call.actionArgs[Len(slots) + 1] = Obj(options)

(***************************************************************************)
(* Boolean options: a global option declared with a bare name, given under  *)
(* its short, long and kebab-case spellings                                 *)
(***************************************************************************)
\* "-v, --verbose", "--dry-run" and "-d, --dry-run"
BooleanDecls ==
  {[rawName |-> <<"-", "v", ",", " ", "-", "-", "v", "e", "r", "b", "o", "s", "e">>, schema |-> NoSchema],
   [rawName |-> <<"-", "-", "d", "r", "y", "-", "r", "u", "n">>, schema |-> NoSchema],
   [rawName |-> <<"-", "d", ",", " ", "-", "-", "d", "r", "y", "-", "r", "u", "n">>, schema |-> NoSchema]}

BooleanTokens ==
  {<<"-", "v">>, <<"-", "-", "v", "e", "r", "b", "o", "s", "e">>, <<"-", "d">>,
   <<"-", "-", "d", "r", "y", "-", "r", "u", "n">>, <<"x">>, <<"7">>, <<"f", "a", "l", "s", "e">>}

NextBoolean ==
  \/ \E decl \in BooleanDecls :
       Len(registry.globalOptions) < MaxOptions /\ Undeclared(decl) /\ Goke_option(decl)
  \/ \E tokens \in SeqsUpTo(BooleanTokens, MaxTokens), run \in BOOLEAN :
       call.count < MaxCalls /\ Goke_parse(tokens, run)

SpecBoolean == Init /\ [][NextBoolean]_vars

\* token i of the latest call spells a flag of option o as it is written on a command
\* line: one or two dashes, then a name of the option, a multi-word name in kebab-case
SpellsFlagOf(o, i) ==
  /\ Len(call.tokens[i]) > 1 /\ call.tokens[i][1] = "-"
  /\ Includes(o.names, camelcaseOptionName(StripDashes(call.tokens[i])))
  /\ \A j \in 1..i : call.tokens[j] # <<"-", "-">>

\* C14: an option declared with Boolean arity never receives a value: when its flag is
\* given once, under its short alias, its long name or its kebab-case name, the resolved
\* value is a boolean, never the string of the token that follows the flag
C14_BooleanArity ==
  (call.made /\ call.error = NoError) =>
    \A k \in 1..Len(CallOptions) :
      (/\ CallOptions[k].isBoolean
       /\ Cardinality({i \in 1..Len(call.tokens) : SpellsFlagOf(CallOptions[k], i)}) = 1) =>
        IsBool(Resolved(CallOptions[k]))

(***************************************************************************)
(* Aliases: the flags -p and --port of one option in one argv               *)
(***************************************************************************)
\* C15: the aliases of an option are one flag: after a call every alias of the option
\* maps to the same final value, and the flags of an option with an array schema, given
\* under whichever aliases, each with a value, count as occurrences of the same flag:
\* the array has one element per flag, in the order the flags were seen
C15_Aliases ==
  (call.made /\ call.error = NoError) =>
    \A k \in 1..Len(CallOptions) :
      Len(Occurrences(CallOptions[k])) >= 1 =>
        /\ \A n \in 1..Len(CallOptions[k].names) :
             GetProp(options, CallOptions[k].names[n]) = Resolved(CallOptions[k])
        /\ (/\ HasArraySchema(CallOptions[k])
            /\ Len(Occurrences(CallOptions[k])) >= 2
            /\ ValuesAccepted(CallOptions[k]))
              => OnePerFlag(CallOptions[k])

(***************************************************************************)
(* coerceBySchema called on single values: null, unions of types, anyOf and *)
(* oneOf lists, enums                                                       *)
(***************************************************************************)
\* JSON texts: [1], ["1",2], ["x",true], [[1],null], {} and the unfinished [1
JsonTexts ==
  {Str(<<"[", "1", "]">>), Str(<<"[", "\"", "1", "\"", ",", "2", "]">>),
   Str(<<"[", "\"", "x", "\"", ",", "t", "r", "u", "e", "]">>),
   Str(<<"[", "[", "1", "]", ",", "n", "u", "l", "l", "]">>), Str(<<"{", "}">>), Str(<<"[", "1">>)}

CoerceValues ==
  {Str(<<>>), Str(<<"t", "r", "u", "e">>), Str(<<"f", "a", "l", "s", "e">>), Str(<<"1">>),
   Str(<<"1", ".", "0">>), Str(<<"x">>), Str(<<"n", "u", "l", "l">>), Bool(TRUE), Bool(FALSE)}
    \cup JsonTexts

NullSchema == [type |-> "null"]

\* schemas whose type is an array of types
TypeUnionSchemas ==
  {[typeUnion |-> ts] :
     ts \in {<<"null", "boolean">>, <<"boolean", "null">>, <<"string", "null">>, <<"null", "string">>,
             <<"number", "string">>, <<"number", "boolean">>, <<"integer", "null">>}}

\* schemas with an anyOf or a oneOf list
VariantSchemas ==
  {[anyOf |-> <<NumberSchema, StringSchema>>], [anyOf |-> <<NullSchema, BooleanSchema>>],
   [anyOf |-> <<[typeUnion |-> <<"integer", "null">>], BooleanSchema>>],
   [oneOf |-> <<BooleanSchema, NumberSchema>>], [oneOf |-> <<IntegerSchema, NullSchema>>]}

EnumSchemas ==
  {[enum |-> literals] :
     literals \in {<<Num(1, 0), Str(<<"1">>)>>, <<Str(<<"1">>), Num(1, 0)>>,
                   <<Bool(TRUE), Str(<<"t", "r", "u", "e">>)>>, <<Str(<<"x">>), Bool(FALSE)>>,
                   <<Num(1, 0), Num(2, 0)>>, <<Null, Str(<<"x">>)>>}}

\* schemas with a path that produces a number: the types, a numeric enum, a numeric const
NumericSchemas ==
  {NumberSchema, IntegerSchema, [enum |-> <<Num(0, 0), Num(1, 0)>>], [const |-> Num(0, 0)],
   [const |-> Num(1, 0)]}

\* array-typed schemas: type "array" with and without items, items without a type
ArraySchemas ==
  {[type |-> "array"], NumberArraySchema, StringArraySchema, [items |-> BooleanSchema],
   [type |-> "array", items |-> [typeUnion |-> <<"number", "null">>]]}

CoerceSchemas ==
  {NullSchema} \cup TypeUnionSchemas \cup VariantSchemas \cup EnumSchemas \cup NumericSchemas
    \cup ArraySchemas

NextCoerce == \E value \in CoerceValues, schema \in CoerceSchemas : Coerce(value, schema)

SpecCoerce == Init /\ [][NextCoerce]_vars

\* the latest coercion threw an error of this kind
CoercionFailed(kind) == IsErr(coercion.result) /\ coercion.result.kind = kind

IsUnion(schema) == Has(schema, "typeUnion") \/ Has(schema, "anyOf") \/ Has(schema, "oneOf")

\* the number of alternatives of a union schema
AlternativeCount(schema) ==
  IF Has(schema, "typeUnion") THEN Len(schema.typeUnion) ELSE Len(UnionVariants(schema))

\* the value coerced by the i-th alternative alone: a member type of a type array,
\* a sub-schema of an anyOf or oneOf list
AlternativeResult(value, schema, i) ==
  IF Has(schema, "typeUnion") THEN coerceToSingleType(value, schema.typeUnion[i], <<"v", "a", "l">>)
  ELSE coerceBySchema(value, UnionVariants(schema)[i], <<"v", "a", "l">>)

\* the alternatives that coerce the value without error
Succeeding(value, schema) ==
  {i \in 1..AlternativeCount(schema) : ~IsErr(AlternativeResult(value, schema, i))}

\* C19: for a type array or an anyOf/oneOf list, a single value coerces to exactly the
\* result of the first alternative, in declared order, that coerces it without error, and
\* the coercion fails if and only if every alternative fails; ["string", "null"] maps ""
\* to "" and ["null", "string"] maps "" to null
C19_UnionOrder ==
  (coercion.made /\ IsUnion(coercion.schema)) =>
    /\ IsErr(coercion.result) <=> Succeeding(coercion.value, coercion.schema) = {}
    /\ \A i \in Succeeding(coercion.value, coercion.schema) :
         (\A j \in Succeeding(coercion.value, coercion.schema) : i <= j)
           => coercion.result = AlternativeResult(coercion.value, coercion.schema, i)
    /\ (coercion.value = Str(<<>>) /\ coercion.schema = [typeUnion |-> <<"string", "null">>])
         => coercion.result = Str(<<>>)
    /\ (coercion.value = Str(<<>>) /\ coercion.schema = [typeUnion |-> <<"null", "string">>])
         => coercion.result = Null

\* "x" under ["number", "string"]: the number fails, the string is the first success
C19_Witness ==
  /\ coercion.made
  /\ coercion.schema = [typeUnion |-> <<"number", "string">>]
  /\ coercion.value = Str(<<"x">>)
  /\ IsErr(AlternativeResult(coercion.value, coercion.schema, 1))
  /\ coercion.result = Str(<<"x">>)

\* the value equals the number literal a as a number
NumericMatch(value, a) ==
  /\ TypeOf(a) = "number"
  /\ IsFinite(ToNumber(JsString(value)))
  /\ NumEq(ToNumber(JsString(value)), a)

\* the value is the boolean literal a, or its string form "true" or "false"
BooleanMatch(value, a) ==
  /\ TypeOf(a) = "boolean"
  /\ \/ value = a
     \/ value = Str(<<"t", "r", "u", "e">>) /\ a = Bool(TRUE)
     \/ value = Str(<<"f", "a", "l", "s", "e">>) /\ a = Bool(FALSE)

\* the string forms of the value and of the literal a are the same string
StringMatch(value, a) == JsString(value) = JsString(a)

\* the allowed literals the value matches, by their positions in the enum
Matching(value, allowed) ==
  {i \in 1..Len(allowed) :
     NumericMatch(value, allowed[i]) \/ BooleanMatch(value, allowed[i]) \/ StringMatch(value, allowed[i])}

\* C20: under an enum the value is matched against each allowed literal by numeric
\* equality, by the boolean string forms "true" and "false", or by string equality; the
\* first allowed literal that matches is returned as the typed literal, and when none
\* matches the coercion fails with an error listing all the allowed values
C20_Enum ==
  (coercion.made /\ Has(coercion.schema, "enum")) =>
    IF Matching(coercion.value, coercion.schema.enum) = {}
    THEN /\ CoercionFailed("expected one of, got")
         /\ coercion.result.v = <<<<"v", "a", "l">>, coercion.schema.enum, coercion.value>>
    ELSE \A i \in Matching(coercion.value, coercion.schema.enum) :
           (\A j \in Matching(coercion.value, coercion.schema.enum) : i <= j)
             => coercion.result = coercion.schema.enum[i]

\* "1.0" under the enum ["1", 1]: the string "1" does not match, the number 1 does
C20_Witness ==
  /\ coercion.made
  /\ coercion.schema = [enum |-> <<Str(<<"1">>), Num(1, 0)>>]
  /\ coercion.value = Str(<<"1", ".", "0">>)
  /\ coercion.result = Num(1, 0)

\* C30: coerceBySchema never converts the empty string into a number: under a number or
\* integer type, a union containing them, a numeric enum literal such as 0 or a numeric
\* const, the input "" fails or gives a result that is not a number, never the number 0
C30_EmptyNeverNumber ==
  (coercion.made /\ coercion.value = Str(<<>>)) => ~IsNumber(coercion.result)

\* the schema is array-typed: type "array", or items without a type
IsArrayTyped(schema) ==
  \/ Has(schema, "type") /\ schema.type = "array"
  \/ ~Has(schema, "type") /\ ~Has(schema, "typeUnion") /\ Has(schema, "items")

\* the input is a string holding a valid JSON array
IsJsonArrayText(value) ==
  value.t = "str" /\ JsonParse(value.v).ok /\ JsonParse(value.v).val.t = "arr"

\* what the array holds for one element e of the parsed array: string and boolean
\* elements go through items, the others are kept
ItemOf(e, schema) ==
  IF Has(schema, "items") /\ e.t \in {"str", "bool"}
  THEN coerceBySchema(e, schema.items, <<"v", "a", "l">>)
  ELSE e

\* the elements the returned array is to hold, before any failure is looked at
ExpectedItems(value, schema) ==
  IF IsJsonArrayText(value)
  THEN [i \in 1..Len(JsonParse(value.v).val.v) |-> ItemOf(JsonParse(value.v).val.v[i], schema)]
  ELSE IF Has(schema, "items") THEN <<coerceBySchema(value, schema.items, <<"v", "a", "l">>)>>
  ELSE <<value>>

\* C28: for an array-typed schema and a single input, coerceBySchema fails inside the item
\* coercion or returns an array: the parsed array when the input is the text of a JSON
\* array, its string and boolean elements coerced through items and the others kept,
\* otherwise the one-element array of the input, coerced through items when present
C28_SingleToArray ==
  (coercion.made /\ IsArrayTyped(coercion.schema)) =>
    IF \E i \in DOMAIN ExpectedItems(coercion.value, coercion.schema) :
         IsErr(ExpectedItems(coercion.value, coercion.schema)[i])
    THEN /\ IsErr(coercion.result)
         /\ \E i \in DOMAIN ExpectedItems(coercion.value, coercion.schema) :
              coercion.result = ExpectedItems(coercion.value, coercion.schema)[i]
    ELSE coercion.result = Arr(ExpectedItems(coercion.value, coercion.schema))

\* ["1",2] under an array of numbers: the string "1" is coerced, the number 2 is kept
C28_Witness ==
  /\ coercion.made
  /\ coercion.schema = NumberArraySchema
  /\ coercion.value = Str(<<"[", "\"", "1", "\"", ",", "2", "]">>)
  /\ coercion.result = Arr(<<Num(1, 0), Num(2, 0)>>)

(***************************************************************************)
(* The tokenizer called on its own: mri(argv, { alias, boolean })          *)
(***************************************************************************)
\* x, false, true, the empty token, -, -v, --verbose, -p, --port, --port=8, --verbose=x,
\* -vp and --
MriTokens ==
  {<<"x">>, <<"f", "a", "l", "s", "e">>, <<"t", "r", "u", "e">>, <<>>, <<"-">>, <<"-", "v">>,
   <<"-", "-", "v", "e", "r", "b", "o", "s", "e">>, <<"-", "p">>, <<"-", "-", "p", "o", "r", "t">>,
   <<"-", "-", "p", "o", "r", "t", "=", "8">>,
   <<"-", "-", "v", "e", "r", "b", "o", "s", "e", "=", "x">>, <<"-", "v", "p">>, <<"-", "-">>}

\* the aliases of "-p, --port" and "-v, --verbose"
PortVerboseAlias ==
  <<<<<<"p">>, Arr(<<<<"p", "o", "r", "t">>>>)>>,
    <<<<"v">>, Arr(<<<<"v", "e", "r", "b", "o", "s", "e">>>>)>>>>

\* what getMriOptions hands over: nothing declared, the two options with verbose a
\* boolean flag, the two options with neither boolean
MriOpts ==
  {[alias |-> <<>>, boolean |-> <<>>],
   [alias |-> PortVerboseAlias, boolean |-> <<<<"v">>>>],
   [alias |-> PortVerboseAlias, boolean |-> <<>>]}

\* one call: the result of mri depends on its arguments alone
NextTokens ==
  /\ ~tokenized.made
  /\ \E argv \in SeqsUpTo(MriTokens, MaxTokens), opts \in MriOpts : Mri(argv, opts)

SpecTokens == Init /\ [][NextTokens]_vars

\* the set of the elements of a sequence
Range(seq) == {seq[i] : i \in 1..Len(seq)}

\* the token begins with "-"
IsDashed(tok) == Len(tok) > 0 /\ tok[1] = "-"

\* the number of tokens before the first "--"
BeforeDoubleDash(argv) == IF DoubleDashIndex(argv) = 0 THEN Len(argv) ELSE DoubleDashIndex(argv) - 1

\* the names a dashed token spells and the text after its "="
NamesOf(tok) ==
  FlagNamesOf(Substring(tok, LeadingDashes(tok), EqualsIndex(tok, LeadingDashes(tok))), LeadingDashes(tok))
InlineOf(tok) == SubstringFrom(tok, EqualsIndex(tok, LeadingDashes(tok)) + 1)

\* two names of one option: the same name, or names of one alias entry
SameOption(opts, a, b) ==
  \/ a = b
  \/ \E e \in 1..Len(opts.alias) : {a, b} \subseteq ({opts.alias[e][1]} \cup Range(opts.alias[e][2].v))

\* the name is declared boolean in the tokenizer, itself or through an alias
IsBooleanName(opts, n) == \E b \in Range(opts.boolean) : SameOption(opts, b, n)

\* the dashed token at i has no text after "=" and a token that does not begin with "-" follows
NextIsValue(argv, i) == InlineOf(argv[i]) = <<>> /\ i < Len(argv) /\ ~IsDashed(argv[i + 1])

\* the token at i is taken by the dashed token before it
TakenByPrevious(argv, i) == i > 1 /\ IsDashed(argv[i - 1]) /\ NextIsValue(argv, i - 1)

\* the value the dashed token at i supplies to the last of its names
SuppliedTo(argv, i) ==
  IF InlineOf(argv[i]) # <<>> THEN Str(InlineOf(argv[i]))
  ELSE IF NextIsValue(argv, i) THEN Str(argv[i + 1])
  ELSE Bool(TRUE)

\* the last name of the dashed token at i is a boolean name supplied with a string
\* other than "true" and "false"
OffendsBoolean(argv, opts, i) ==
  /\ IsDashed(argv[i])
  /\ NamesOf(argv[i]) # <<>>
  /\ IsBooleanName(opts, NamesOf(argv[i])[Len(NamesOf(argv[i]))])
  /\ SuppliedTo(argv, i).t = "str"
  /\ SuppliedTo(argv, i).v \notin {<<"t", "r", "u", "e">>, <<"f", "a", "l", "s", "e">>}

\* what the token at i adds to the positionals
PositionalsAt(argv, opts, i) ==
  IF IsDashed(argv[i])
  THEN (IF OffendsBoolean(argv, opts, i) /\ InlineOf(argv[i]) # <<>> THEN <<Str(InlineOf(argv[i]))>> ELSE <<>>)
  ELSE IF TakenByPrevious(argv, i)
  THEN (IF OffendsBoolean(argv, opts, i - 1) THEN <<Str(argv[i])>> ELSE <<>>)
  ELSE <<Str(argv[i])>>

RECURSIVE PositionalsFrom(_, _, _)
\* the positionals of the tokens i .. before "--", and every token after "--"
PositionalsFrom(argv, opts, i) ==
  IF i > BeforeDoubleDash(argv)
  THEN [p \in 1..(Len(argv) - i) |-> Str(argv[i + p])]
  ELSE PositionalsAt(argv, opts, i) \o PositionalsFrom(argv, opts, i + 1)

\* the values the dashed token at i gives to the name n, in order
ValuesAt(argv, i, n) ==
  LET names == NamesOf(argv[i])
      given == [p \in 1..Len(names) |->
                  [name |-> names[p], val |-> IF p < Len(names) THEN Bool(TRUE) ELSE SuppliedTo(argv, i)]]
      mine == SelectSeq(given, LAMBDA g : g.name = n)
  IN [p \in 1..Len(mine) |-> mine[p].val]

RECURSIVE ValuesFrom(_, _, _)
\* the values the tokens i .. before "--" give to the name n
ValuesFrom(argv, i, n) ==
  IF i > BeforeDoubleDash(argv) THEN <<>>
  ELSE (IF IsDashed(argv[i]) THEN ValuesAt(argv, i, n) ELSE <<>>) \o ValuesFrom(argv, i + 1, n)

\* one value as it is, several as an array
Collected(vals) == IF Len(vals) = 1 THEN vals[1] ELSE Arr(vals)

\* the names spelled by the dashed tokens before "--"
SpelledNames(argv) ==
  UNION {Range(NamesOf(argv[i])) : i \in {k \in 1..BeforeDoubleDash(argv) : IsDashed(argv[k])}}

\* n is the only spelling of its option in argv
OnlySpelling(argv, opts, n) == \A m \in SpelledNames(argv) : SameOption(opts, m, n) => m = n

\* the dashed token at i is written without "=", and its last name is n
PlainFlagOf(argv, i, n) ==
  /\ IsDashed(argv[i])
  /\ argv[i] # <<"-", "-">>
  /\ EqualsIndex(argv[i], LeadingDashes(argv[i])) = Len(argv[i])
  /\ NamesOf(argv[i]) # <<>>
  /\ NamesOf(argv[i])[Len(NamesOf(argv[i]))] = n

ExplicitNotFalse(argv, opts, i) ==
  /\ IsDashed(argv[i])
  /\ NamesOf(argv[i]) # <<>>
  /\ IsBooleanName(opts, NamesOf(argv[i])[Len(NamesOf(argv[i]))])
  /\ SuppliedTo(argv, i).t = "str"
  /\ SuppliedTo(argv, i).v # <<"f", "a", "l", "s", "e">>

\* what the token at i adds to the positionals when every explicit value other than
\* "false" is pushed
PushedUnlessFalseAt(argv, opts, i) ==
  IF IsDashed(argv[i])
  THEN (IF ExplicitNotFalse(argv, opts, i) /\ InlineOf(argv[i]) # <<>> THEN <<Str(InlineOf(argv[i]))>> ELSE <<>>)
  ELSE IF TakenByPrevious(argv, i)
  THEN (IF ExplicitNotFalse(argv, opts, i - 1) THEN <<Str(argv[i])>> ELSE <<>>)
  ELSE <<Str(argv[i])>>

RECURSIVE PushedUnlessFalseFrom(_, _, _)
PushedUnlessFalseFrom(argv, opts, i) ==
  IF i > BeforeDoubleDash(argv)
  THEN [p \in 1..(Len(argv) - i) |-> Str(argv[i + p])]
  ELSE PushedUnlessFalseAt(argv, opts, i) \o PushedUnlessFalseFrom(argv, opts, i + 1)

\* the boolean a boolean name gets from the value v: false for "false", true otherwise
FalseOrTrue(v) == IF v.t = "bool" THEN v ELSE Bool(v.v # <<"f", "a", "l", "s", "e">>)

\* the same, the empty string giving false
FalseOrTruthy(v) ==
  IF v.t = "bool" THEN v ELSE Bool(v.v # <<"f", "a", "l", "s", "e">> /\ v.v # <<>>)

\* the boolean name n is the only spelling of its option in the latest call of mri
BooleanAlone(n) ==
  /\ IsBooleanName(tokenized.opts, n)
  /\ OnlySpelling(tokenized.argv, tokenized.opts, n)

HeldAsValue(out, v) ==
  \E e \in 1..Len(out) :
    /\ out[e][1] # <<"_">>
    /\ \/ out[e][2] = Str(v)
       \/ out[e][2].t = "arr" /\ Str(v) \in Range(out[e][2].v)

\* the tokenizer output holds the string v among the positionals
HeldAsPositional(out, v) == Str(v) \in Range(GetProp(out, <<"_">>).v)

\* the dashed token at i gave "true" or "false" to its last name, and the output holds
\* that boolean under the name
HeldAsBoolean(argv, out, i) ==
  /\ NamesOf(argv[i]) # <<>>
  /\ SuppliedTo(argv, i).t = "str"
  /\ SuppliedTo(argv, i).v \in {<<"t", "r", "u", "e">>, <<"f", "a", "l", "s", "e">>}
  /\ \E held \in {GetProp(out, NamesOf(argv[i])[Len(NamesOf(argv[i]))])} :
       \/ held = Bool(SuppliedTo(argv, i).v = <<"t", "r", "u", "e">>)
       \/ held.t = "arr" /\ Bool(SuppliedTo(argv, i).v = <<"t", "r", "u", "e">>) \in Range(held.v)

\* the token at i is found in the output: a dashed token by the names it spells and the
\* text after its "=", any other token as a positional or as a flag's value
AccountedFor(argv, out, i) ==
  IF IsDashed(argv[i])
  THEN /\ NamesOf(argv[i]) # <<>>
       /\ \A n \in Range(NamesOf(argv[i])) : HasKey(out, n)
       /\ InlineOf(argv[i]) # <<>>
            => \/ HeldAsValue(out, InlineOf(argv[i]))
               \/ HeldAsPositional(out, InlineOf(argv[i]))
               \/ HeldAsBoolean(argv, out, i)
  ELSE \/ HeldAsPositional(out, argv[i])
       \/ HeldAsValue(out, argv[i])
       \/ TakenByPrevious(argv, i) /\ HeldAsBoolean(argv, out, i - 1)

\* C24: every argv token before the first "--" is accounted for in the tokenizer output,
\* as a positional, as a flag name or as part of a flag's value; no token is dropped
C24_TokenConservation ==
  tokenized.made =>
    \A i \in 1..BeforeDoubleDash(tokenized.argv) : AccountedFor(tokenized.argv, tokenized.out, i)

(***************************************************************************)
(* Two commands, each with options of its own                              *)
(***************************************************************************)
\* the options a command is declared with: none, --port <port> with z.number(),
\* --port <port> with z.string()
IsolationOptions ==
  {<<>>,
   <<[rawName |-> <<"-", "-", "p", "o", "r", "t", " ", "<", "p", "o", "r", "t", ">">>, schema |-> <<NumberSchema>>]>>,
   <<[rawName |-> <<"-", "-", "p", "o", "r", "t", " ", "<", "p", "o", "r", "t", ">">>, schema |-> <<StringSchema>>]>>}

\* cli.command(rawName).option(...).action(fn)
IsolationDecl(rawName, opts) ==
  [rawName |-> rawName, options |-> opts, aliasNames |-> <<>>,
   config |-> [allowUnknownOptions |-> FALSE, ignoreOptionDefaultValue |-> FALSE], action |-> TRUE]

IsolationTokens == {<<"a">>, <<"b">>, <<"x">>, <<"7">>, <<"-", "-", "p", "o", "r", "t">>}

NextIsolation ==
  \/ \E rawName \in {<<"a">>, <<"b">>}, opts \in IsolationOptions :
       Len(registry.commands) < MaxCommands /\ Goke_command(IsolationDecl(rawName, opts))
  \/ \E tokens \in SeqsUpTo(IsolationTokens, MaxTokens), run \in BOOLEAN :
       call.count < MaxCalls /\ Goke_parse(tokens, run)

SpecIsolation == Init /\ [][NextIsolation]_vars

\* the registry with the options of every command but c taken away
OptionsOfOnly(reg, c) ==
  [reg EXCEPT !.commands = [i \in 1..Len(reg.commands) |->
                              IF i = c THEN reg.commands[i] ELSE [reg.commands[i] EXCEPT !.options = <<>>]]]

\* the latest call repeated with the options of every command but c taken away
CallAlone(c) == parse(OptionsOfOnly(call.registry, c), FreshState, call.tokens, call.run)

\* C21: when argv matches the command c, the outcome of parse depends only on the global
\* options and the options of c: the options and schemas declared on another command
\* never make the call fail and never change what the handler of c is passed
C21_CommandIsolation ==
  call.made =>
    \A c \in 1..Len(call.registry.commands) :
      CallAlone(c).command = c =>
        /\ call.error = CallAlone(c).error
        /\ call.command = c
        /\ call.invoked = CallAlone(c).invoked
        /\ call.actionArgs = CallAlone(c).actionArgs

(***************************************************************************)
(* A command with one option of Required arity named flag                  *)
(***************************************************************************)
BooleanDefaultSchema == [type |-> "boolean", default |-> Bool(FALSE)]

\* "--flag <flag>" without a schema, with z.string(), z.boolean(), z.boolean().default(false)
RequiredDecls ==
  {[rawName |-> <<"-", "-", "f", "l", "a", "g", " ", "<", "f", "l", "a", "g", ">">>, schema |-> schema] :
     schema \in {NoSchema, <<StringSchema>>, <<BooleanSchema>>, <<BooleanDefaultSchema>>}}

\* cli.command('s').option('--flag <flag>', schema).action(fn)
RequiredDecl(option) ==
  [rawName |-> <<"s">>, options |-> <<option>>, aliasNames |-> <<>>,
   config |-> [allowUnknownOptions |-> FALSE, ignoreOptionDefaultValue |-> FALSE], action |-> TRUE]

RequiredTokens ==
  {<<"s">>, <<"x">>, <<"t", "r", "u", "e">>, <<"f", "a", "l", "s", "e">>, <<"-", "-", "f", "l", "a", "g">>,
   <<"-", "-", "f", "l", "a", "g", "=", "f", "a", "l", "s", "e">>}

NextRequired ==
  \/ \E option \in RequiredDecls : Len(registry.commands) < MaxCommands /\ Goke_command(RequiredDecl(option))
  \/ \E tokens \in SeqsUpTo(RequiredTokens, MaxTokens), run \in BOOLEAN :
       call.count < MaxCalls /\ Goke_parse(tokens, run)

SpecRequired == Init /\ [][NextRequired]_vars

\* C22: the "value is missing" failure is raised for an option of Required arity only
\* when its flag is in argv without a value: never when every flag of the option has an
\* explicit value, "true" and "false" under a boolean schema included, and never when
\* the flag is absent, a boolean default included
C22_MissingOnlyWithoutValue ==
  (call.made /\ Failed("value is missing")) =>
    \E k \in 1..Len(CallOptions) :
      /\ CallOptions[k].required
      /\ \E i \in 1..Len(call.tokens) : IsFlagOf(CallOptions[k], i) /\ NoValueAfter(i)

(***************************************************************************)
(* A command with one declared option, plain or dot-nested                 *)
(***************************************************************************)
\* "--port <port>" and "--config.port <port>" without a schema, with z.number() and with
\* z.number().default(8)
NestedDecls ==
  {[rawName |-> rawName, schema |-> schema] :
     rawName \in {<<"-", "-", "p", "o", "r", "t", " ", "<", "p", "o", "r", "t", ">">>,
                  <<"-", "-", "c", "o", "n", "f", "i", "g", ".", "p", "o", "r", "t", " ", "<", "p", "o", "r", "t", ">">>},
     schema \in {NoSchema, <<NumberSchema>>, <<NumberDefaultSchema>>}}

\* cli.command('s').option(rawName, schema).action(fn)
NestedDecl(option) ==
  [rawName |-> <<"s">>, options |-> <<option>>, aliasNames |-> <<>>,
   config |-> [allowUnknownOptions |-> FALSE, ignoreOptionDefaultValue |-> FALSE], action |-> TRUE]

NestedTokens ==
  {<<"s">>, <<"7">>, <<"-", "-", "p", "o", "r", "t">>, <<"-", "-", "c", "o", "n", "f", "i", "g", ".", "p", "o", "r", "t">>,
   <<"-", "-", "x">>}

NextNested ==
  \/ \E option \in NestedDecls : Len(registry.commands) < MaxCommands /\ Goke_command(NestedDecl(option))
  \/ \E tokens \in SeqsUpTo(NestedTokens, MaxTokens), run \in BOOLEAN :
       call.count < MaxCalls /\ Goke_parse(tokens, run)

SpecNested == Init /\ [][NextNested]_vars

\* C23: an option declared on the matched command or globally is never reported as
\* unknown, a dot-nested one such as --config.port <port> included, with or without a
\* default and with or without its flag in argv: when every flag of argv is the flag of
\* a declared option, the unknown-option check does not fail
C23_DeclaredNeverUnknown ==
  (call.made /\ Failed("Unknown option")) => ~AllFlagsDeclared

(***************************************************************************)
(* Unknown commands: commands of one and two words, the help flag enabled  *)
(* or not, argv of words                                                   *)
(***************************************************************************)
\* the default command, "b", "m l" and "m o", each with a handler
UnknownCommands ==
  {Declare(<<>>, TRUE), Declare(<<"b">>, TRUE), Declare(<<"m", " ", "l">>, TRUE),
   Declare(<<"m", " ", "o">>, TRUE)}
UnknownWords == {<<"m">>, <<"l">>, <<"b">>, <<"x">>, <<"-", "-", "h", "e", "l", "p">>}

NextUnknown ==
  \/ \E decl \in UnknownCommands : Len(registry.commands) < MaxCommands /\ Goke_command(decl)
  \/ ~registry.showHelpOnExit /\ Goke_help
  \/ \E tokens \in SeqsUpTo(UnknownWords, MaxTokens), run \in BOOLEAN :
       call.count < MaxCalls /\ Goke_parse(tokens, run)

SpecUnknown == Init /\ [][NextUnknown]_vars

\* the candidate lists the latest call reported
CandidateLists == SelectSeq(call.output, LAMBDA o : o.kind = "outputHelpForPrefix")

\* the commands with a name whose first word is the word w, in registration order
StartingWith(w) ==
  SelectSeq([c \in 1..Len(call.registry.commands) |-> c],
            LAMBDA c : CallNameParts(c) # <<>> /\ Str(CallNameParts(c)[1]) = w)

\* the latest call matched no command, none was left matched by an earlier call, and
\* the help layer is there to present the candidates of a first positional
NothingMatched ==
  /\ call.made /\ ~IsErr(call.error)
  /\ call.command = 0 /\ call.matchedBefore = 0
  /\ call.registry.showHelpOnExit
  /\ Len(args) > 0

RECURSIVE SearchPhases(_, _, _)
\* one round of the loop over the sorted commands, parsed being this.mri(argv.slice(2), command)
TryPhases(reg, tokens, cs, parsed) ==
  IF ~parsed.ok THEN <<"Tokenizing", "Thrown">>
  ELSE IF isMatched(reg.commands[cs[1]], parsed.args).matched THEN <<"Tokenizing", "Resolving", "Matched">>
  ELSE <<"Tokenizing", "Resolving">> \o SearchPhases(reg, tokens, Tail(cs))

\* the loop over the sorted commands: this.mri, then command.isMatched, for each command
\* until one matches
SearchPhases(reg, tokens, cs) ==
  IF Len(cs) = 0 THEN <<>> ELSE TryPhases(reg, tokens, cs, Goke_mri(reg, tokens, cs[1]))

\* the default command is passed over when the first positional starts another command
DefaultSkipped(reg, parsed) ==
  Len(parsed.args) > 0 /\ Truthy(parsed.args[1]) /\ Len(matchingCommands(reg, parsed.args[1])) > 0

RECURSIVE DefaultPhases(_, _, _)
\* one round of the loop over the default commands, parsed being this.mri(argv.slice(2), command)
TryDefaultPhases(reg, tokens, c, parsed) ==
  IF ~parsed.ok THEN <<"Tokenizing", "Thrown">>
  ELSE <<"Tokenizing", "Resolving">> \o (IF DefaultSkipped(reg, parsed) THEN <<>> ELSE <<"Matched">>)
       \o DefaultPhases(reg, tokens, c + 1)

\* the loop over the commands in registration order, for those whose name is empty
DefaultPhases(reg, tokens, c) ==
  IF c > Len(reg.commands) THEN <<>>
  ELSE IF reg.commands[c].name # <<>> THEN DefaultPhases(reg, tokens, c + 1)
  ELSE TryDefaultPhases(reg, tokens, c, Goke_mri(reg, tokens, c))

\* shouldParse is false, or this.mri threw
Stopped(trace) == \E i \in 1..Len(trace) : trace[i] \in {"Matched", "Thrown"}

\* if (shouldParse) { the default commands }
WithDefault(reg, tokens, trace) ==
  IF Stopped(trace) THEN trace ELSE trace \o DefaultPhases(reg, tokens, 1)

\* setParsedInfo(parsed), or the error this.mri threw
GlobalPhases(parsed) == IF parsed.ok THEN <<"Tokenizing", "Unmatched">> ELSE <<"Tokenizing", "Thrown">>

\* if (shouldParse) { this.mri(argv.slice(2)); setParsedInfo(parsed) }
WithGlobal(reg, tokens, trace) ==
  IF Stopped(trace) THEN trace ELSE trace \o GlobalPhases(Goke_mri(reg, tokens, 0))

\* the phases up to the end of resolution
ResolvePhases(reg, tokens) ==
  WithGlobal(reg, tokens, WithDefault(reg, tokens, SearchPhases(reg, tokens, sortedCommands(reg))))

\* runMatchedCommand(), from what the call c did: the checks, then the handler or the
\* error of a check; nothing when it was not called or had no handler to run
RunPhases(c) ==
  IF c.invoked # 0 THEN <<"Validating", "Dispatched">>
  ELSE IF IsErr(c.error) /\ c.error.kind \in ValidationKinds THEN <<"Validating", "ValidationFailed">>
  ELSE <<>>

\* cli.parse(argv, {run}) with the phases it goes through recorded in order
Goke_parseTraced(tokens, run) ==
  /\ ParseEffects(tokens, run, "undefined")
  /\ phases' = <<"Idle">> \o ResolvePhases(registry, tokens) \o RunPhases(call')

\* a command and a default command with handlers, a command with a required positional,
\* a command with a number option
PhaseCommands ==
  {Declare(<<"m">>, TRUE), Declare(<<>>, TRUE), ArgsDecl(<<"s", " ", "<", "a", ">">>),
   IsolationDecl(<<"a">>, <<[rawName |-> <<"-", "-", "p", "o", "r", "t", " ", "<", "p", "o", "r", "t", ">">>,
                            schema |-> <<NumberSchema>>]>>)}

PhaseTokens == {<<"m">>, <<"s">>, <<"x">>, <<"-", "-", "p", "o", "r", "t">>}

NextPhases ==
  \/ \E decl \in PhaseCommands : Len(registry.commands) < MaxCommands /\ Goke_command(decl)
  \/ \E tokens \in SeqsUpTo(PhaseTokens, MaxTokens), run \in BOOLEAN :
       call.count < MaxCalls /\ Goke_parseTraced(tokens, run)

SpecPhases == Init /\ [][NextPhases]_vars

\* the three paths of the phase machine
MatchedPath(terminal) == <<"Idle", "Tokenizing", "Resolving", "Matched", "Validating", terminal>>
UnmatchedPath == <<"Idle", "Tokenizing", "Resolving", "Unmatched">>

\* C27: every parse call moves through Idle, Tokenizing and Resolving, then either Matched
\* followed by Validating, or Unmatched, and ends in exactly one of Dispatched,
\* ValidationFailed or Unmatched; once resolving has begun, it never tokenizes the same
\* input again
C27_Phases ==
  call.made => phases \in {MatchedPath("Dispatched"), MatchedPath("ValidationFailed"), UnmatchedPath}

\* once resolving has begun, no later phase of the call is Tokenizing
C27_NoSecondTokenizing ==
  call.made => \A i, j \in 1..Len(phases) : (i < j /\ phases[i] = "Resolving") => phases[j] # "Tokenizing"

\* the call ends in one of the three terminal states
C27_EndsInTerminal ==
  call.made => phases[Len(phases)] \in {"Dispatched", "ValidationFailed", "Unmatched"}
====
